---- MODULE Spec2Model ----
(***************************************************************************)
(* Key-lock state machine of autokey_tool/key_detector_improved.py         *)
(* (KeyDetector), its profile correlation, the capture buffer of           *)
(* autokey_tool/audio_engine.py (AudioEngine) and the listening control of *)
(* autokey_tool/main.py (AutoKeyApp).                                      *)
(*                                                                         *)
(* Units.  Confidences and lock_strength are fixed-point thousandths       *)
(* (0.65 is 650, 1.0 is 1000); RMS levels are in units of 1e-4 (the        *)
(* silence floor 0.001 is 10, the loudness bands 0.01 and 0.05 are 100 and *)
(* 500).  A product with a decimal factor is computed on integers and      *)
(* truncated, as int() and the float comparisons of the source do for the  *)
(* values used here.                                                       *)
(*                                                                         *)
(* The audio window is abstracted to what detect_key reads from it: whether*)
(* it holds at least one second of samples, its RMS and the RMS of its     *)
(* trailing half second.  The librosa feature extraction and the profile   *)
(* correlation of one tick are abstracted to their outcome: either they    *)
(* raise, or they yield the tick's raw detection (key, mode, confidence);  *)
(* _correlate_with_profiles has a specification of its own (SpecCorr).     *)
(* The chroma deques are kept by their lengths.  The capture buffer holds  *)
(* samples named by their capture number, with scaled-down lengths; a      *)
(* snapshot shorter than min_samples is a window shorter than one second.  *)
(* The widgets of the window are not modelled.  The progress               *)
(* messages of the locking logic are modelled by their position only:      *)
(* print() is a call inside the try block, and the three messages that     *)
(* hold non-ASCII characters (lines 460, 470, 514) raise UnicodeEncodeError*)
(* on a stdout whose encoding lacks them; the message of the except clause *)
(* is ASCII.                                                               *)
(***************************************************************************)
EXTENDS Integers, Sequences, FiniteSets, TLC

VARIABLES
    det,        \* the fields of the KeyDetector instance
    pre,        \* the fields of the KeyDetector instance when the last call began
    ret,        \* the value returned by the last detect_key call
    op,         \* the last call made on the detector, its argument, whether its
                \* try block raised
    ticks,      \* number of calls made so far
    run,        \* number of consecutive detect_key calls with the last argument
    silent_since_reset,  \* reset() was called and only silent input was fed since
    is_running,     \* AutoKeyApp.is_running
    engine_running, \* AudioEngine._running
    audio_buffer,   \* AudioEngine.audio_buffer: the samples held, oldest first, each
                    \* sample named by its capture number
    captured,       \* number of samples appended to the buffer so far
    lock,           \* AudioEngine._lock: who holds it
    pending,        \* the samples of the chunk a running _stream_callback has still
                    \* to append
    threads,        \* the analysis threads started so far: where each one is in
                    \* _analysis_loop, the buffer snapshot it took, and whether
                    \* stop was clicked while it was in its loop
    clicks,         \* number of clicks on the start/stop button so far
    rebound,        \* listening was started and no tick has begun since
    hpcp,           \* the argument of the last _correlate_with_profiles call
    correlated,     \* what that call returned
    voting,           \* the dsp_pipeline.KeyDetector (the voting variant)
    voting_pre,       \* that detector before its last detect_key call
    vote_op,        \* the argument of that call, and the parity of the number of calls
    vote_ticks,     \* number of detect_key calls made on it so far
    vote_run,       \* number of consecutive calls with the last argument
    related,        \* the last _is_related_key call: its arguments and its result
    capturing,            \* AudioEngine._running, in the model of the buffer's length
    actual_sample_rate,   \* AudioEngine._actual_sample_rate
    detector_sample_rate, \* KeyDetector.sample_rate
    buffered,             \* len(AudioEngine.audio_buffer), in samples
    stale,                \* how many of them were captured before the latest start
    starts,               \* number of AudioEngine.start calls that opened a stream
    window          \* the last detect_key call of the analysis loop since the latest
                    \* start: whether there was one, whether it found the window too
                    \* short, how many samples captured before that start the window
                    \* held, and the parity of the number of calls

detvars == <<det, pre, ret, op, ticks, run, silent_since_reset>>
corrvars == <<hpcp, correlated>>
votevars == <<voting, voting_pre, vote_op, vote_ticks, vote_run>>
relvars == <<related>>
capvars == <<capturing, actual_sample_rate, detector_sample_rate, buffered, stale, starts,
             window>>
appvars == <<is_running, engine_running, audio_buffer, captured, lock, pending, threads, clicks,
             rebound>>
vars == <<det, pre, ret, op, ticks, run, silent_since_reset,
          is_running, engine_running, audio_buffer, captured, lock, pending, threads, clicks,
          rebound, hpcp, correlated, voting, voting_pre, vote_op, vote_ticks, vote_run,
          related, capturing, actual_sample_rate, detector_sample_rate, buffered, stale, starts,
          window>>

(***************************************************************************)
(* Configuration: KeyDetector as AutoKeyApp constructs it.                 *)
(***************************************************************************)
\* AudioEngine as AutoKeyApp constructs it; buffer_seconds = 1.5 in tenths.
configured_sample_rate == 44100
buffer_tenths == 15
configured_chunk_size == 2048
short_history == 8
long_history == 20
confidence_threshold == 120
min_rms_threshold == 10
frames_to_lock == 15
frames_to_unlock == 25
quick_lock_threshold == 6
rms_history_maxlen == 30
recent_detections_maxlen == 10

KEY_NAMES == <<"C", "C#", "D", "D#", "E", "F", "F#", "G", "G#", "A", "A#", "B">>
Modes == {"Major", "Minor"}

\* Python's None, as a key and as the (name, mode) part of a return value.
None == <<"None", "None">>

\* f"{key_name} {mode}": a key string is the pair of its two words;
\* split() gives the words back as parts[0], parts[1].
AllKeys == {<<KEY_NAMES[i], m>> : i \in 1..12, m \in Modes}

Rotate(i, by) == ((i - 1 + by) % 12) + 1

\* A map that holds the major keys only.
relative_keys_of_majors ==
    [k \in {<<KEY_NAMES[i], "Major">> : i \in 1..12} |->
        LET i == CHOOSE j \in 1..12 : KEY_NAMES[j] = k[1]
        IN  <<KEY_NAMES[Rotate(i, 9)], "Minor">>]

\* _build_relative_key_map: for the major key at index i the minor key at (i - 3) % 12,
\* and back.
relative_keys ==
    [k \in AllKeys |->
        LET i == CHOOSE j \in 1..12 : KEY_NAMES[j] = k[1]
        IN  IF k[2] = "Major" THEN <<KEY_NAMES[Rotate(i, 9)], "Minor">>
                              ELSE <<KEY_NAMES[Rotate(i, 3)], "Major">>]

\* dict.get(key): None for a key the dict does not hold.
DictGet(dict, key) == IF key \in DOMAIN dict THEN dict[key] ELSE None

is_related_key(key1, key2) ==
    IF key1 = None \/ key2 = None THEN FALSE
    ELSE DictGet(relative_keys, key1) = key2

\* A bounded queue that refuses a new element when full.
deque_rejects_when_full(q, x, n) == IF Len(q) < n THEN Append(q, x) ELSE q

\* deque(maxlen=n).append(x)
DequeAppend(q, x, n) == IF Len(q) < n THEN Append(q, x) ELSE Append(Tail(q), x)

\* The length of a deque of chroma vectors after one more append.
LenAppend(len, n) == IF len < n THEN len + 1 ELSE n

RECURSIVE SumSeq(_)
SumSeq(q) == IF q = <<>> THEN 0 ELSE Head(q) + SumSeq(Tail(q))

Min(a, b) == IF a < b THEN a ELSE b
Max(a, b) == IF a > b THEN a ELSE b

(***************************************************************************)
(* KeyDetector.__init__: the mutable fields of a new detector.             *)
(* _last_detected_key is read with getattr(..., None) until first set.     *)
(***************************************************************************)
NewDetector ==
    [ chroma_short           |-> 0,
      chroma_long            |-> 0,
      current_key            |-> None,
      current_confidence     |-> 0,
      lock_strength          |-> 0,
      same_key_count         |-> 0,
      adaptive_lock_frames   |-> frames_to_lock,
      adaptive_unlock_frames |-> frames_to_unlock,
      high_confidence_count  |-> 0,
      avg_rms_history        |-> <<>>,
      avg_confidence_history |-> <<>>,
      recent_detections      |-> <<>>,
      last_detected_key      |-> None ]

\* A reset that forgets the field __init__ does not create.
reset_keeps_last_detected(s) ==
    [ NewDetector EXCEPT !.last_detected_key = s.last_detected_key ]

\* A reset that forgets to clear lock_strength.
reset_keeps_strength(s) ==
    [ s EXCEPT
      !.chroma_short           = 0,
      !.chroma_long            = 0,
      !.current_key            = None,
      !.current_confidence     = 0,
      !.same_key_count         = 0,
      !.high_confidence_count  = 0,
      !.last_detected_key      = None,
      !.avg_rms_history        = <<>>,
      !.avg_confidence_history = <<>>,
      !.recent_detections      = <<>>,
      !.adaptive_lock_frames   = frames_to_lock,
      !.adaptive_unlock_frames = frames_to_unlock ]

\* A reset that forgets to clear current_confidence.
reset_keeps_confidence(s) ==
    [ NewDetector EXCEPT !.current_confidence = s.current_confidence ]

\* KeyDetector.reset
reset(s) ==
    [ s EXCEPT
      !.chroma_short           = 0,
      !.chroma_long            = 0,
      !.current_key            = None,
      !.current_confidence     = 0,
      !.lock_strength          = 0,
      !.same_key_count         = 0,
      !.high_confidence_count  = 0,
      !.last_detected_key      = None,
      !.avg_rms_history        = <<>>,
      !.avg_confidence_history = <<>>,
      !.recent_detections      = <<>>,
      !.adaptive_lock_frames   = frames_to_lock,
      !.adaptive_unlock_frames = frames_to_unlock ]

(***************************************************************************)
(* KeyDetector._update_adaptive_thresholds                                 *)
(***************************************************************************)
\* The frame counts without the floors and the final clamps of lines 168-181.
AdaptiveFrames_unclamped(avg_rms_sum, avg_conf_sum, n) ==
    LET quiet      == avg_rms_sum < 100 * n
        moderate   == avg_rms_sum < 500 * n
        base_lock  == IF quiet THEN 10 ELSE IF moderate THEN 12 ELSE 15
        base_unl   == IF quiet THEN 18 ELSE IF moderate THEN 20 ELSE 25
        conf_mult  == IF quiet THEN 8 ELSE IF moderate THEN 9 ELSE 10
    IN  IF avg_conf_sum > 600 * n
          THEN [ lock |-> (base_lock * 6) \div 10, unlock |-> (base_unl * 8) \div 10 ]
        ELSE IF avg_conf_sum > 400 * n
          THEN [ lock   |-> (base_lock * conf_mult) \div 10,
                 unlock |-> (base_unl * conf_mult) \div 10 ]
        ELSE [ lock |-> (base_lock * 13) \div 10, unlock |-> (base_unl * 12) \div 10 ]

\* Frame counts that make a low average confidence lock faster, not slower.
AdaptiveFrames_low_is_faster(avg_rms_sum, avg_conf_sum, n) ==
    LET quiet      == avg_rms_sum < 100 * n
        moderate   == avg_rms_sum < 500 * n
        base_lock  == IF quiet THEN 10 ELSE IF moderate THEN 12 ELSE 15
        base_unl   == IF quiet THEN 18 ELSE IF moderate THEN 20 ELSE 25
        conf_mult  == IF quiet THEN 8 ELSE IF moderate THEN 9 ELSE 10
        lock0      == IF avg_conf_sum > 600 * n
                        THEN Max(6, (base_lock * 6) \div 10)
                      ELSE IF avg_conf_sum > 400 * n
                        THEN (base_lock * conf_mult) \div 10
                      ELSE (base_lock * 5) \div 10
        unlock0    == IF avg_conf_sum > 600 * n
                        THEN Max(15, (base_unl * 8) \div 10)
                      ELSE IF avg_conf_sum > 400 * n
                        THEN (base_unl * conf_mult) \div 10
                      ELSE (base_unl * 12) \div 10
    IN  [ lock   |-> Max(6, Min(20, lock0)),
          unlock |-> Max(15, Min(30, unlock0)) ]

AdaptiveFrames(avg_rms_sum, avg_conf_sum, n) ==
    LET quiet      == avg_rms_sum < 100 * n
        moderate   == avg_rms_sum < 500 * n
        base_lock  == IF quiet THEN 10 ELSE IF moderate THEN 12 ELSE 15
        base_unl   == IF quiet THEN 18 ELSE IF moderate THEN 20 ELSE 25
        conf_mult  == IF quiet THEN 8 ELSE IF moderate THEN 9 ELSE 10
        lock0      == IF avg_conf_sum > 600 * n
                        THEN Max(6, (base_lock * 6) \div 10)
                      ELSE IF avg_conf_sum > 400 * n
                        THEN (base_lock * conf_mult) \div 10
                      ELSE (base_lock * 13) \div 10
        unlock0    == IF avg_conf_sum > 600 * n
                        THEN Max(15, (base_unl * 8) \div 10)
                      ELSE IF avg_conf_sum > 400 * n
                        THEN (base_unl * conf_mult) \div 10
                      ELSE (base_unl * 12) \div 10
    IN  [ lock   |-> Max(6, Min(20, lock0)),
          unlock |-> Max(15, Min(30, unlock0)) ]

update_adaptive_thresholds(s, rms, confidence) ==
    LET rh == DequeAppend(s.avg_rms_history, rms, rms_history_maxlen)
        ch == DequeAppend(s.avg_confidence_history, confidence, rms_history_maxlen)
        s1 == [s EXCEPT !.avg_rms_history = rh, !.avg_confidence_history = ch]
    IN  IF Len(rh) < 10 THEN s1
        ELSE LET f == AdaptiveFrames(SumSeq(rh), SumSeq(ch), Len(rh))
             IN  [s1 EXCEPT !.adaptive_lock_frames = f.lock,
                            !.adaptive_unlock_frames = f.unlock]

(***************************************************************************)
(* KeyDetector._check_strong_consensus                                     *)
(***************************************************************************)
check_strong_consensus(s, detected_key) ==
    LET rd == s.recent_detections
        n  == Cardinality({i \in 1..Len(rd) : rd[i][1] = detected_key})
    IN  IF Len(rd) < 6 THEN FALSE
        ELSE n > 0 /\ 10 * n >= 8 * Len(rd)

\* A threshold that no loudness lowers.
effective_threshold_fixed(rms) == confidence_threshold

\* The effective confidence threshold of one tick, from the tick's own RMS.
effective_threshold(rms) ==
    IF rms < 100 THEN (confidence_threshold * 6) \div 10
    ELSE IF rms < 500 THEN (confidence_threshold * 8) \div 10
    ELSE confidence_threshold

Returned(key, confidence) == <<key[1], key[2], confidence>>
NoKeyReturned == <<"None", "None", 0>>

(***************************************************************************)
(* detect_key, the branch taken once the confidence reached the effective  *)
(* threshold.  s is the state after recent_detections.append.              *)
(***************************************************************************)
\* A counter that never remembers the key it saw last.
count_streaks_forgets(s, detected_key, confidence) ==
    [s EXCEPT !.same_key_count = 1,
              !.high_confidence_count = IF confidence > 650 THEN 1 ELSE 0]

\* Lines 436-447: the consecutive-frame counter and the high-confidence streak.
count_streaks(s, detected_key, confidence) ==
    IF detected_key = s.last_detected_key
      THEN [s EXCEPT !.same_key_count = @ + 1,
                     !.high_confidence_count = IF confidence > 650 THEN @ + 1 ELSE 0]
      ELSE [s EXCEPT !.same_key_count = 1,
                     !.high_confidence_count = IF confidence > 650 THEN 1 ELSE 0,
                     !.last_detected_key = detected_key]

\* A quick-lock test that is content with a streak of three and asks for no consensus.
can_quick_lock_after_three(s, detected_key) ==
    s.high_confidence_count >= 3

\* Lines 449-454; s is the state after count_streaks.
can_quick_lock(s, detected_key) ==
    /\ s.high_confidence_count >= quick_lock_threshold
    /\ check_strong_consensus(s, detected_key)

\* A quick-lock that also clears the two counters.
quick_lock_resets_counters(s, detected_key, confidence) ==
    [s EXCEPT !.current_key = detected_key,
              !.current_confidence = confidence,
              !.lock_strength = 700,
              !.same_key_count = 0,
              !.high_confidence_count = 0]

\* Lines 456-459
quick_lock(s, detected_key, confidence) ==
    [s EXCEPT !.current_key = detected_key,
              !.current_confidence = confidence,
              !.lock_strength = 700]

\* A normal lock that never takes place.
normal_lock_skipped(s, detected_key, confidence) == s

\* Lines 467-469
normal_lock(s, detected_key, confidence) ==
    [s EXCEPT !.current_key = detected_key,
              !.current_confidence = confidence,
              !.lock_strength = 500]

\* Case 1: no current key
case_unlocked(s, detected_key, confidence) ==
    LET s1   == count_streaks(s, detected_key, confidence)
        skc  == s1.same_key_count
    IN  IF can_quick_lock(s1, detected_key)
          THEN [ st  |-> quick_lock(s1, detected_key, confidence),
                 ret |-> Returned(detected_key, confidence) ]
        ELSE IF skc >= s1.adaptive_lock_frames
          THEN [ st  |-> normal_lock(s1, detected_key, confidence),
                 ret |-> Returned(detected_key, confidence) ]
        ELSE [ st |-> s1, ret |-> Returned(detected_key, confidence) ]

\* A re-detection that wears the lock down instead of strengthening it.
weaken(lock_strength) == Max(0, lock_strength - 100)

\* A strengthening without the cap.
strengthen_uncapped(lock_strength) == lock_strength + 100

\* Line 479: min(1.0, lock_strength + 0.1)
strengthen(lock_strength) == Min(1000, lock_strength + 100)

\* A Case 2 that replaces current_confidence by the new reading.
case_same_overwrites(s, confidence) ==
    [ st  |-> [s EXCEPT !.same_key_count = 0,
                        !.high_confidence_count = 0,
                        !.lock_strength = strengthen(s.lock_strength),
                        !.current_confidence = confidence],
      ret |-> Returned(s.current_key, confidence) ]

\* Case 2: detected same as current
case_same(s, confidence) ==
    LET cc == (8 * s.current_confidence + 2 * confidence) \div 10
    IN  [ st  |-> [s EXCEPT !.same_key_count = 0,
                            !.high_confidence_count = 0,
                            !.lock_strength = strengthen(s.lock_strength),
                            !.current_confidence = cc],
          ret |-> Returned(s.current_key, cc) ]

\* No suppression of the relative key.
relative_never_blocked(s, detected_key, confidence) == FALSE

\* Lines 492-494: a relative key of the locked key, not confident enough to override.
relative_blocked(s, detected_key, confidence) ==
    is_related_key(detected_key, s.current_key) /\ confidence < 700

\* A counter of the new key's frames that leaves the lock as strong as it was.
count_without_decay(s, detected_key) ==
    [s EXCEPT !.same_key_count = IF detected_key = s.last_detected_key THEN @ + 1 ELSE 1,
              !.last_detected_key = detected_key]

\* A decay that drops the lock once lock_strength is below 0.6.
count_and_decay_unlocks(s, detected_key) ==
    [s EXCEPT !.same_key_count = IF detected_key = s.last_detected_key THEN @ + 1 ELSE 1,
              !.last_detected_key = detected_key,
              !.lock_strength = (@ * 95) \div 100,
              !.current_key = IF (s.lock_strength * 95) \div 100 < 600 THEN None ELSE @]

\* Lines 499-507: count the consecutive frames of the new key, decay the lock.
count_and_decay(s, detected_key) ==
    [s EXCEPT !.same_key_count = IF detected_key = s.last_detected_key THEN @ + 1 ELSE 1,
              !.last_detected_key = detected_key,
              !.lock_strength = (@ * 95) \div 100]

\* A fast-switch test that does not ask for the consensus.
can_fast_switch_without_consensus(s, detected_key, confidence) ==
    confidence > 750 /\ s.same_key_count >= 5

\* Lines 509-513; s is the state after count_and_decay.
can_fast_switch(s, detected_key, confidence) ==
    /\ confidence > 750
    /\ check_strong_consensus(s, detected_key)
    /\ s.same_key_count >= 5

\* A Case 3 whose blocked relative-key tick restarts the switch counter.
case_different_restarts(s, detected_key, confidence) ==
    LET s1 == [s EXCEPT !.high_confidence_count = 0]
    IN  IF relative_blocked(s, detected_key, confidence)
          THEN [ st  |-> [s1 EXCEPT !.same_key_count = 0],
                 ret |-> Returned(s.current_key, s.current_confidence) ]
        ELSE
          LET s2  == count_and_decay(s1, detected_key)
          IN  IF can_fast_switch(s2, detected_key, confidence)
                   \/ s2.same_key_count >= s2.adaptive_unlock_frames
                THEN [ st  |-> [s2 EXCEPT !.current_key = detected_key,
                                          !.current_confidence = confidence,
                                          !.lock_strength =
                                              IF can_fast_switch(s2, detected_key, confidence)
                                                THEN 600 ELSE 500,
                                          !.same_key_count = 0],
                       ret |-> Returned(detected_key, confidence) ]
              ELSE [ st |-> s2, ret |-> Returned(s.current_key, s.current_confidence) ]

\* Case 3: different key detected
case_different(s, detected_key, confidence) ==
    LET s1 == [s EXCEPT !.high_confidence_count = 0]
    IN  IF relative_blocked(s, detected_key, confidence)
          THEN [ st |-> s1, ret |-> Returned(s.current_key, s.current_confidence) ]
        ELSE
          LET s2  == count_and_decay(s1, detected_key)
              skc == s2.same_key_count
          IN  IF can_fast_switch(s2, detected_key, confidence)
                THEN [ st  |-> [s2 EXCEPT !.current_key = detected_key,
                                          !.current_confidence = confidence,
                                          !.lock_strength = 600,
                                          !.same_key_count = 0],
                       ret |-> Returned(detected_key, confidence) ]
              ELSE IF skc >= s2.adaptive_unlock_frames
                THEN [ st  |-> [s2 EXCEPT !.current_key = detected_key,
                                          !.current_confidence = confidence,
                                          !.lock_strength = 500,
                                          !.same_key_count = 0],
                       ret |-> Returned(detected_key, confidence) ]
              ELSE [ st |-> s2, ret |-> Returned(s.current_key, s.current_confidence) ]

\* A low-confidence branch that never keeps reporting the locked key.
case_low_confidence_drops(s, confidence) ==
    [ st  |-> [s EXCEPT !.same_key_count = 0],
      ret |-> <<"None", "None", confidence>> ]

\* A low-confidence branch that wears the lock down, as dsp_pipeline.py does.
case_low_confidence_decays(s, confidence) ==
    LET s1 == [s EXCEPT !.same_key_count = 0,
                        !.lock_strength = (@ * 9) \div 10]
    IN  IF s.current_key # None /\ s.lock_strength > 300
          THEN [ st |-> s1, ret |-> Returned(s.current_key, s.current_confidence) ]
        ELSE [ st |-> s1, ret |-> <<"None", "None", confidence>> ]

\* A low-confidence branch that also restarts the high-confidence streak.
case_low_confidence_restarts(s, confidence) ==
    LET s1 == [s EXCEPT !.same_key_count = 0, !.high_confidence_count = 0]
    IN  IF s.current_key # None /\ s.lock_strength > 300
          THEN [ st |-> s1, ret |-> Returned(s.current_key, s.current_confidence) ]
        ELSE [ st |-> s1, ret |-> <<"None", "None", confidence>> ]

\* The low-confidence branch
case_low_confidence(s, confidence) ==
    LET s1 == [s EXCEPT !.same_key_count = 0]
    IN  IF s.current_key # None /\ s.lock_strength > 300
          THEN [ st |-> s1, ret |-> Returned(s.current_key, s.current_confidence) ]
        ELSE [ st |-> s1, ret |-> <<"None", "None", confidence>> ]

\* Line 432: self.recent_detections.append((detected_key, confidence))
track_detection(s, a) ==
    [s EXCEPT !.recent_detections =
         DequeAppend(@, <<a.key, a.conf>>, recent_detections_maxlen)]

\* Lines 406-535; s is the state after _update_adaptive_thresholds.
lock_logic(s, a) ==
    IF a.conf < effective_threshold(a.rms)
      THEN case_low_confidence(s, a.conf)
    ELSE
      LET s1 == track_detection(s, a)
      IN  IF s1.current_key = None THEN case_unlocked(s1, a.key, a.conf)
          ELSE IF a.key = s1.current_key THEN case_same(s1, a.conf)
          ELSE case_different(s1, a.key, a.conf)

\* The same lines up to the first message with non-ASCII characters on the tick's
\* path: [QUICK-LOCK] (line 460, after the quick-lock assignments), [LOCKED] (line 470,
\* after the normal-lock assignments), [FAST-SWITCH] (line 514, before the switch
\* assignments).  prints tells whether the path has one, st is the state when it is
\* printed.
until_print(s, a) ==
    IF a.conf < effective_threshold(a.rms)
      THEN [ st |-> s, prints |-> FALSE ]
    ELSE
      LET s1 == track_detection(s, a)
      IN  IF s1.current_key = None
            THEN LET s2 == count_streaks(s1, a.key, a.conf)
                 IN  IF can_quick_lock(s2, a.key)
                       THEN [ st |-> quick_lock(s2, a.key, a.conf), prints |-> TRUE ]
                     ELSE IF s2.same_key_count >= s2.adaptive_lock_frames
                       THEN [ st |-> normal_lock(s2, a.key, a.conf), prints |-> TRUE ]
                     ELSE [ st |-> s, prints |-> FALSE ]
          ELSE IF a.key = s1.current_key \/ relative_blocked(s1, a.key, a.conf)
            THEN [ st |-> s, prints |-> FALSE ]
          ELSE
            LET s2 == count_and_decay([s1 EXCEPT !.high_confidence_count = 0], a.key)
            IN  IF can_fast_switch(s2, a.key, a.conf)
                  THEN [ st |-> s2, prints |-> TRUE ]
                ELSE [ st |-> s, prints |-> FALSE ]

(***************************************************************************)
(* KeyDetector.detect_key.  a is the call's argument:                      *)
(*   long        len(audio) >= int(sample_rate * 1.0)                      *)
(*   rms         RMS of the whole window                                   *)
(*   recent_rms  RMS of the trailing int(sample_rate * 0.5) samples        *)
(*   fail        where the body of the try block raises, if it does:       *)
(*               "features" before the chroma vector is appended,          *)
(*               "correlate" after it, "print" at a progress message       *)
(*               stdout cannot encode                                      *)
(*   key, conf   the raw detection of _correlate_with_profiles             *)
(***************************************************************************)
\* An insufficient-data guard that resets the detector.
insufficient_data_resets(s) == [ st |-> reset(s), ret |-> NoKeyReturned ]

\* A tail check that returns without resetting.
tail_silence_keeps_state(s) == [ st |-> s, ret |-> NoKeyReturned ]

\* A whole-window silence check that resets, as the tail check does.
overall_silence_resets(s) == [ st |-> reset(s), ret |-> NoKeyReturned ]

\* An except clause that resets the detector.
tick_failed_resets(s) == [ st |-> reset(s), ret |-> NoKeyReturned ]

\* Lines 344-347: fewer samples than one second.
insufficient_data(s) == [ st |-> s, ret |-> NoKeyReturned ]

\* Lines 351-357: the trailing half second is below the silence floor.
tail_silence(s) == [ st |-> reset(s), ret |-> NoKeyReturned ]

\* Lines 359-360: the whole window is below the silence floor, its tail is not.
overall_silence(s) == [ st |-> s, ret |-> NoKeyReturned ]

\* Lines 537-541: the except clause; s is the state reached when the body raised.
tick_failed(s) == [ st |-> s, ret |-> NoKeyReturned ]

\* Lines 362-535: the body of the try block.  raised tells whether it raised, st is the
\* state it reached and ret, when it did not raise, the value it returned.
try_body(s, a) ==
    IF a.fail = "features" THEN [ st |-> s, ret |-> NoKeyReturned, raised |-> TRUE ]
    ELSE
      LET s1 == [s EXCEPT !.chroma_short = LenAppend(@, short_history),
                          !.chroma_long  = LenAppend(@, long_history)]
      IN  IF a.fail = "correlate"
            THEN [ st |-> s1, ret |-> NoKeyReturned, raised |-> TRUE ]
          ELSE
            LET s2 == update_adaptive_thresholds(s1, a.rms, a.conf)
                p  == until_print(s2, a)
                r  == lock_logic(s2, a)
            IN  IF a.fail = "print" /\ p.prints
                  THEN [ st |-> p.st, ret |-> NoKeyReturned, raised |-> TRUE ]
                ELSE [ st |-> r.st, ret |-> r.ret, raised |-> FALSE ]

\* Whether the window reaches the try block.
reaches_body(a) ==
    a.long /\ a.recent_rms >= min_rms_threshold /\ a.rms >= min_rms_threshold

detect_key(s, a) ==
    IF ~a.long THEN insufficient_data(s)
    ELSE IF a.recent_rms < min_rms_threshold THEN tail_silence(s)
    ELSE IF a.rms < min_rms_threshold THEN overall_silence(s)
    ELSE LET b == try_body(s, a)
         IN  IF b.raised THEN tick_failed(b.st)
             ELSE [ st |-> b.st, ret |-> b.ret ]

(***************************************************************************)
(* dsp_pipeline.KeyDetector, the voting variant, with the defaults of its   *)
(* constructor.  Confidences, lock_strength and the thresholds are in       *)
(* thousandths; key_votes is the dict itself, a function from the keys that *)
(* have an entry to their weights.                                          *)
(***************************************************************************)
dsp_confidence_threshold == 150
vote_decay_rate == 7
min_votes_to_switch == 12
threshold_history_maxlen == 50

NewVotingDetector ==
    [ chroma_short       |-> 0,
      chroma_long        |-> 0,
      current_key        |-> None,
      current_confidence |-> 0,
      lock_strength      |-> 0,
      key_votes          |-> <<>>,
      adaptive_threshold |-> dsp_confidence_threshold,
      threshold_history  |-> <<>> ]

\* KeyDetector.reset
vote_reset(s) == NewVotingDetector

\* The k-th smallest element of q, counted with repetitions.
KthSmallest(q, k) ==
    CHOOSE v \in {q[i] : i \in 1..Len(q)} :
        /\ Cardinality({i \in 1..Len(q) : q[i] < v}) < k
        /\ Cardinality({i \in 1..Len(q) : q[i] <= v}) >= k

\* Twice np.median(q), for a non-empty q.
TwiceMedian(q) ==
    LET n == Len(q)
    IN  IF n % 2 = 1 THEN 2 * KthSmallest(q, (n + 1) \div 2)
        ELSE KthSmallest(q, n \div 2) + KthSmallest(q, n \div 2 + 1)

\* KeyDetector._update_adaptive_threshold
update_adaptive_threshold(s, confidence) ==
    LET th == DequeAppend(s.threshold_history, confidence, threshold_history_maxlen)
        s1 == [s EXCEPT !.threshold_history = th]
    IN  IF Len(th) < 20 THEN s1
        ELSE IF TwiceMedian(th) > 1200
          THEN [s1 EXCEPT !.adaptive_threshold = Max(100, dsp_confidence_threshold - 50)]
        ELSE IF TwiceMedian(th) < 600
          THEN [s1 EXCEPT !.adaptive_threshold = Min(250, dsp_confidence_threshold + 50)]
        ELSE [s1 EXCEPT !.adaptive_threshold = dsp_confidence_threshold]

\* A decay that keeps the entries whose weight fell to 0.
decay_votes_unpruned(key_votes) ==
    [k \in DOMAIN key_votes |-> (key_votes[k] * vote_decay_rate) \div 10]

\* Lines 273-277: int(votes * 0.7) for every entry, entries below 1 deleted.
decay_votes(key_votes) ==
    LET decayed == [k \in DOMAIN key_votes |-> (key_votes[k] * vote_decay_rate) \div 10]
    IN  [k \in {j \in DOMAIN key_votes : decayed[j] >= 1} |-> decayed[k]]

\* Line 280: max(1, int(confidence * 3))
vote_weight(confidence) == Max(1, (confidence * 3) \div 1000)

\* Line 281: key_votes[new_key] = key_votes.get(new_key, 0) + vote_weight
add_vote(key_votes, new_key, weight) ==
    [k \in DOMAIN key_votes \cup {new_key} |->
        (IF k \in DOMAIN key_votes THEN key_votes[k] ELSE 0)
            + (IF k = new_key THEN weight ELSE 0)]

\* KeyDetector._vote_for_key: the votes it leaves and the key it returns.
vote_for_key(s, new_key, confidence) ==
    LET kv == add_vote(decay_votes(s.key_votes), new_key, vote_weight(confidence))
    IN  [ key_votes |-> kv,
          decided   |->
            IF kv[new_key] >= min_votes_to_switch
              THEN IF new_key # s.current_key
                     THEN IF \/ s.current_key = None
                             \/ confidence > 700
                             \/ s.lock_strength < 300
                             \/ ~is_related_key(new_key, s.current_key)
                            THEN new_key
                          ELSE s.current_key
                   ELSE new_key
            ELSE s.current_key ]

\* Lines 382-390: the confidence is below the adaptive threshold.
vote_low_confidence(s, confidence) ==
    LET s1 == [s EXCEPT !.lock_strength = (@ * 9) \div 10]
    IN  IF s.current_key # None
          THEN [ st |-> s1, ret |-> Returned(s.current_key, s.current_confidence) ]
        ELSE [ st |-> s1, ret |-> <<"None", "None", confidence>> ]

\* Lines 392-418: the vote and the update of the lock.
vote_and_lock(s, a) ==
    LET v   == vote_for_key(s, a.key, a.conf)
        s1  == [s EXCEPT !.key_votes = v.key_votes]
        ls  == IF v.decided = a.key THEN Min(1000, s1.lock_strength + 150)
               ELSE (s1.lock_strength * 85) \div 100
        s2  == IF v.decided = None THEN s1
               ELSE IF v.decided # s1.current_key
                 THEN [s1 EXCEPT !.current_key = v.decided,
                                 !.current_confidence = a.conf,
                                 !.lock_strength = 500]
               ELSE [s1 EXCEPT !.lock_strength = ls,
                               !.current_confidence = (7 * @ + 3 * a.conf) \div 10]
    IN  IF s2.current_key # None
          THEN [ st |-> s2, ret |-> Returned(s2.current_key, s2.current_confidence) ]
        ELSE [ st |-> s2, ret |-> Returned(a.key, a.conf) ]

\* Lines 335-424: the body of the try block and the except clause; a.fail as for the
\* other detector.
vote_try_body(s, a) ==
    IF a.fail = "features" THEN [ st |-> s, ret |-> NoKeyReturned ]
    ELSE
      LET s1 == [s EXCEPT !.chroma_short = LenAppend(@, short_history),
                          !.chroma_long  = LenAppend(@, long_history)]
      IN  IF a.fail = "correlate" THEN [ st |-> s1, ret |-> NoKeyReturned ]
          ELSE
            LET s2 == update_adaptive_threshold(s1, a.conf)
            IN  IF a.conf < s2.adaptive_threshold
                  THEN vote_low_confidence(s2, a.conf)
                ELSE vote_and_lock(s2, a)

\* dsp_pipeline.KeyDetector.detect_key
vote_detect_key(s, a) ==
    IF ~a.long THEN [ st |-> s, ret |-> NoKeyReturned ]
    ELSE IF a.recent_rms < min_rms_threshold
      THEN [ st |-> vote_reset(s), ret |-> NoKeyReturned ]
    ELSE IF a.rms < min_rms_threshold THEN [ st |-> s, ret |-> NoKeyReturned ]
    ELSE vote_try_body(s, a)

(***************************************************************************)
(* The calls made on the detector.                                         *)
(***************************************************************************)
Window(long, rms, recent_rms) ==
    [ long |-> long, rms |-> rms, recent_rms |-> recent_rms,
      fail |-> "none", key |-> None, conf |-> 0 ]

NoArg == Window(FALSE, 0, 0)

Tick(rms, fail, key, conf) ==
    [ long |-> TRUE, rms |-> rms, recent_rms |-> rms,
      fail |-> fail, key |-> key, conf |-> conf ]

\* The keys the raw detection is drawn from: a key, its relative key, an unrelated key.
AMinor == <<"A", "Minor">>
CMajor == <<"C", "Major">>
GMajor == <<"G", "Major">>
Keys == {AMinor, CMajor, GMajor}

\* The RMS levels (0.006, 0.1) and confidences (0.01, 0.5, 0.89) of the ticks.  No mean
\* of up to 23 of them equals a band limit of _update_adaptive_thresholds (0.01 and 0.05
\* for the RMS, 0.4 and 0.6 for the confidence), so the comparisons of the means are
\* the same on integers as on floats.
RmsLevels == {60, 1000}
Confs == {10, 500, 890}

Windows ==
    { Window(FALSE, 300, 300),      \* half a second of music
      Window(FALSE, 0, 0),          \* half a second of zeros
      Window(TRUE, 0, 0),           \* all-zero input
      Window(TRUE, 300, 5),         \* music that has just stopped
      Window(TRUE, 8, 12) }         \* quiet head, audible tail

Inputs ==
    Windows
    \cup { Tick(300, f, None, 0) : f \in {"features", "correlate"} }
    \cup { Tick(1000, "print", AMinor, 890) }
    \cup { Tick(r, "none", k, c) : r \in RmsLevels, k \in Keys, c \in Confs }

\* Steady material, loud (RMS 0.1) or quiet (RMS 0.006): the input of the long runs.
SongInputs ==
    { Tick(1000, "none", CMajor, 890),
      Tick(60, "none", CMajor, 890),
      Tick(60, "none", CMajor, 500),
      Tick(60, "none", AMinor, 500),
      Tick(60, "none", GMajor, 500),
      Tick(60, "none", AMinor, 10),
      Tick(60, "features", None, 0) }

\* Quiet material with one input for each detection: C Major at 0.89, G Major and
\* A Minor (the relative key of C Major) at 0.5, and A Minor below the threshold.
SwitchInputs ==
    { Tick(60, "none", CMajor, 890),
      Tick(60, "none", GMajor, 500),
      Tick(60, "none", AMinor, 500),
      Tick(60, "none", AMinor, 10) }

\* One key at RMS 0.006, 0.031 and 0.1, with a confidence below every threshold
\* (0.01), between 0.072 and 0.096, between 0.096 and 0.12, and above 0.12.
LevelInputs ==
    { Tick(r, "none", CMajor, c) : r \in {60, 310, 1000}, c \in {10, 80, 100, 130} }

\* The input of the voting detector: C Major at 0.89 (weight 2) and at 1.0 (weight 3),
\* at 0.12 (between the lowered and the base threshold) and at 0.05 (below every
\* threshold), G Major at 0.89, and music that has just stopped.
VoteInputs ==
    { Tick(1000, "none", CMajor, 890),
      Tick(1000, "none", CMajor, 1000),
      Tick(1000, "none", CMajor, 120),
      Tick(1000, "none", CMajor, 50),
      Tick(1000, "none", GMajor, 890),
      Window(TRUE, 300, 5) }

\* One key fed at high confidence.
HighInputs ==
    { Tick(1000, "none", k, c) : k \in Keys, c \in {700, 890, 1000} }

(***************************************************************************)
(* _correlate_with_profiles.  A chroma vector enters through the dot       *)
(* products np.dot(np.roll(hpcp, -shift), profile) it gives with the       *)
(* normalised profiles: a table holds, for one profile pair, the twelve    *)
(* products with the major and the twelve with the minor profile, in       *)
(* hundredths.  For a non-negative vector that is unit-norm or all-zero    *)
(* and the non-negative unit-norm profiles every product lies in [0, 1].   *)
(* A profile weight is counted in twentieths (0.45, 0.35, 0.20 are 9, 7,   *)
(* 4), so a score is in units of 1/2000; the confidence is in thousandths. *)
(***************************************************************************)
\* A comparison that lets a later candidate with the same product win.
better_or_equal(corr, best_corr) == corr >= best_corr

\* Lines 282 and 287: if major_corr > best_corr, if minor_corr > best_corr
better(corr, best_corr) == corr > best_corr

\* Lines 279-290: the loop over the twelve rotations, from shift on.
RECURSIVE scan_shifts(_, _, _)
scan_shifts(table, shift, best) ==
    IF shift = 12 THEN best
    ELSE
      LET major_corr == table.major[shift + 1]
          minor_corr == table.minor[shift + 1]
          b1 == IF better(major_corr, best.corr)
                  THEN [key |-> shift, mode |-> "Major", corr |-> major_corr]
                ELSE best
          b2 == IF better(minor_corr, b1.corr)
                  THEN [key |-> shift, mode |-> "Minor", corr |-> minor_corr]
                ELSE b1
      IN  scan_shifts(table, shift + 1, b2)

\* _detect_key_with_profile: best_corr starts at -1.0, best_key at 0, best_mode at
\* "Major".
detect_key_with_profile(table) ==
    scan_shifts(table, 0, [key |-> 0, mode |-> "Major", corr |-> -100])

\* key = f"{KEY_NAMES[key_idx]} {mode}"
key_string(r) == <<KEY_NAMES[r.key + 1], r.mode>>

\* results[key] = results.get(key, 0) + amount; the dict is the sequence of its
\* (key, score) items in insertion order.
dict_add(results, key, amount) ==
    IF \E i \in 1..Len(results) : results[i][1] = key
      THEN [i \in 1..Len(results) |->
              IF results[i][1] = key THEN <<key, results[i][2] + amount>>
              ELSE results[i]]
    ELSE Append(results, <<key, amount>>)

\* One item put into a list sorted by falling score, behind the items that score
\* the same.
RECURSIVE insert_sorted(_, _)
insert_sorted(items, item) ==
    IF items = <<>> THEN <<item>>
    ELSE IF item[2] > Head(items)[2] THEN <<item>> \o items
    ELSE <<Head(items)>> \o insert_sorted(Tail(items), item)

\* sorted(results.items(), key=lambda x: x[1], reverse=True); the sort is stable.
RECURSIVE sorted_results(_)
sorted_results(items) ==
    IF items = <<>> THEN <<>>
    ELSE insert_sorted(sorted_results(SubSeq(items, 1, Len(items) - 1)),
                       items[Len(items)])

\* A confidence without the cap.
unclamped(x) == x

\* Line 327: min(1.0, ...)
clamp(x) == Min(1000, x)

\* Line 327: (best_score / 0.85) * (1 + separation * 0.5) before the cap, in
\* thousandths: best / 2000 / 0.85 * (1 + separation / 4000) * 1000.
raw_confidence(best_score, second_best_score) ==
    LET separation == best_score - second_best_score
    IN  (best_score * (4000 + separation)) \div 6800

\* The three weighted votes in the order the code casts them.
profile_votes(h) ==
    LET edma      == detect_key_with_profile(h.edma)
        shaath    == detect_key_with_profile(h.shaath)
        temperley == detect_key_with_profile(h.temperley)
    IN  << <<key_string(edma), 9 * edma.corr>>,
           <<key_string(shaath), 7 * shaath.corr>>,
           <<key_string(temperley), 4 * temperley.corr>> >>

\* _correlate_with_profiles: (key name, mode, best_score, confidence)
correlate_with_profiles(h) ==
    LET votes   == profile_votes(h)
        r1      == dict_add(<<>>, votes[1][1], votes[1][2])
        r2      == dict_add(r1, votes[2][1], votes[2][2])
        results == dict_add(r2, votes[3][1], votes[3][2])
        ranked  == sorted_results(results)
        best_key          == ranked[1][1]
        best_score        == ranked[1][2]
        second_best_score == IF Len(ranked) > 1 THEN ranked[2][2] ELSE 0
    IN  <<best_key[1], best_key[2], best_score,
          clamp(raw_confidence(best_score, second_best_score))>>

\* The chroma vectors fed: those whose products are 0 except with the C major, the
\* C minor and the A minor rotation of each profile pair, where they take one of the
\* levels below.  9 * 70 = 7 * 90, 9 * 40 = 4 * 90 and 7 * 40 = 4 * 70: the votes of
\* two profiles can tie.
CorrLevels == {0, 40, 70, 90}
EdmaLevels == {0, 40, 70, 90}
ShaathLevels == {0, 40, 90}
TemperleyLevels == {0, 70, 90}
Table(c_major, c_minor, a_minor) ==
    [ major |-> [i \in 1..12 |-> IF i = 1 THEN c_major ELSE 0],
      minor |-> [i \in 1..12 |-> IF i = 1 THEN c_minor
                                 ELSE IF i = 10 THEN a_minor ELSE 0] ]
Tables(levels) == {Table(x, y, z) : x \in levels, y \in levels, z \in levels}
Chromas ==
    [edma : Tables(EdmaLevels), shaath : Tables(ShaathLevels),
     temperley : Tables(TemperleyLevels)]
\* The all-zero chroma vector.
NoChroma == [edma |-> Table(0, 0, 0), shaath |-> Table(0, 0, 0),
             temperley |-> Table(0, 0, 0)]

MaxTicks == 12
SongTicks == 21
SwitchTicks == 26
VoteTicks == 22
MinRun == 5
MaxSessions == 2
AppTicks == 2
MaxClicks == 3
MaxThreads == 2

MaxChunks == 4

\* The buffer lengths, scaled down: a chunk is shorter than the one second detect_key
\* asks for, one second is shorter than the buffer, and the buffer is not a whole
\* number of chunks (int(44100 * 1.5) = 66150 = 32 * 2048 + 614).
chunk_size == 2
min_samples == 3
buffer_size == 5

Threads == 1..MaxThreads
NoThread == [pc |-> "none", audio |-> <<>>, told |-> FALSE]

\* AutoKeyApp.__init__ (with KeyDetector.__init__ and AudioEngine.__init__)
Init ==
    /\ det = NewDetector
    /\ pre = NewDetector
    /\ ret = NoKeyReturned
    /\ op = [call |-> "init", a |-> NoArg, raised |-> FALSE]
    /\ ticks = 0
    /\ run = 0
    /\ silent_since_reset = FALSE
    /\ is_running = FALSE
    /\ engine_running = FALSE
    /\ audio_buffer = <<>>
    /\ captured = 0
    /\ lock = {}
    /\ pending = 0
    /\ threads = [t \in Threads |-> NoThread]
    /\ clicks = 0
    /\ rebound = FALSE
    /\ hpcp = NoChroma
    /\ correlated = <<"None", "None", 0, 0>>
    /\ voting = NewVotingDetector
    /\ voting_pre = NewVotingDetector
    /\ vote_op = [a |-> NoArg, phase |-> 0]
    /\ vote_ticks = 0
    /\ vote_run = 0
    /\ capturing = FALSE
    /\ actual_sample_rate = 44100
    /\ detector_sample_rate = configured_sample_rate
    /\ buffered = 0
    /\ stale = 0
    /\ starts = 0
    /\ window = [called |-> FALSE, short |-> FALSE, stale |-> 0, phase |-> 0]
    /\ related = [called |-> FALSE, key1 |-> None, key2 |-> None, result |-> FALSE]

\* The runs explored: at most max_ticks calls, and the argument of detect_key changes
\* only after MinRun calls with the same argument (the windows of consecutive ticks
\* overlap, so a raw detection lasts for several ticks).
Budget(a, max_ticks) ==
    /\ ticks < max_ticks
    /\ \/ op.call # "detect_key"
       \/ op.a = a
       \/ run >= MinRun
    /\ ticks' = ticks + 1
    /\ run' = IF op.call = "detect_key" /\ op.a = a THEN run + 1 ELSE 1

\* A silent input: the RMS of the whole window is below the silence floor.
IsSilent(a) == a.rms < min_rms_threshold

\* key, mode, confidence = self.key_detector.detect_key(audio)
DetectKey(a) ==
    /\ pre' = det
    /\ LET r == detect_key(det, a)
       IN  det' = r.st /\ ret' = r.ret
    /\ op' = [call |-> "detect_key", a |-> a,
              raised |-> reaches_body(a) /\ try_body(det, a).raised]
    /\ silent_since_reset' = (silent_since_reset /\ IsSilent(a))

\* self.key_detector.reset()
ResetDetector ==
    /\ pre' = det
    /\ det' = reset(det)
    /\ op' = [call |-> "reset", a |-> NoArg, raised |-> FALSE]
    /\ silent_since_reset' = TRUE
    /\ run' = 0
    /\ UNCHANGED ret

(***************************************************************************)
(* The detector driven directly: any sequence of detect_key and reset.     *)
(***************************************************************************)
Reset ==
    /\ ticks < MaxTicks
    /\ op.call = "detect_key"
    /\ ResetDetector
    /\ ticks' = ticks + 1
    /\ UNCHANGED <<appvars, corrvars, votevars, relvars, capvars>>

Listen == \E a \in Inputs : Budget(a, MaxTicks) /\ DetectKey(a) /\ UNCHANGED <<appvars, corrvars, votevars, relvars, capvars>>

Next == Listen \/ Reset

Spec == Init /\ [][Next]_vars

ListenSong ==
    \E a \in SongInputs : Budget(a, SongTicks) /\ DetectKey(a) /\ UNCHANGED <<appvars, corrvars, votevars, relvars, capvars>>

SpecSong == Init /\ [][ListenSong]_vars

\* A song that changes key: the ticks of a lock followed by a switch.
ListenSwitch ==
    \E a \in SwitchInputs : Budget(a, SwitchTicks) /\ DetectKey(a) /\ UNCHANGED <<appvars, corrvars, votevars, relvars, capvars>>

SpecSwitch == Init /\ [][ListenSwitch]_vars

\* key, mode, confidence = detector.detect_key(audio), on the voting detector
VoteDetectKey(a) ==
    /\ voting_pre' = voting
    /\ voting' = vote_detect_key(voting, a).st
    /\ vote_op' = [a |-> a, phase |-> 1 - vote_op.phase]

\* At most VoteTicks calls, the argument changing only after MinRun equal calls.
ListenVote ==
    \E a \in VoteInputs :
        /\ vote_ticks < VoteTicks
        /\ vote_ticks = 0 \/ vote_op.a = a \/ vote_run >= MinRun
        /\ vote_ticks' = vote_ticks + 1
        /\ vote_run' = IF vote_ticks > 0 /\ vote_op.a = a THEN vote_run + 1 ELSE 1
        /\ VoteDetectKey(a)
        /\ UNCHANGED <<detvars, appvars, corrvars, relvars, capvars>>

SpecVote == Init /\ [][ListenVote]_vars

\* The same key fed at the same high confidence on every tick, without end.
FeedSameKey ==
    \E a \in HighInputs :
        /\ vote_op.a \in {NoArg, a}
        /\ VoteDetectKey(a)
        /\ UNCHANGED <<vote_ticks, vote_run, detvars, appvars, corrvars, relvars, capvars>>

\* The caller's loop calls detect_key again and again.
SpecVoteFair == Init /\ [][FeedSameKey]_vars /\ WF_vars(FeedSameKey)

\* Material of every loudness band with confidences around the thresholds.
ListenLevels ==
    \E a \in LevelInputs : Budget(a, MaxTicks) /\ DetectKey(a) /\ UNCHANGED <<appvars, corrvars, votevars, relvars, capvars>>

SpecLevels == Init /\ [][ListenLevels]_vars

(***************************************************************************)
(* _correlate_with_profiles called once on any of the chroma vectors: the  *)
(* function reads and writes no field, so one call shows all it does.      *)
(***************************************************************************)
Correlate ==
    /\ correlated[1] = "None"
    /\ \E h \in Chromas :
          /\ hpcp' = h
          /\ correlated' = correlate_with_profiles(h)
    /\ UNCHANGED <<detvars, appvars, votevars, relvars, capvars>>

SpecCorr == Init /\ [][Correlate]_vars

\* A call of _is_related_key on any two keys, None included.
IsRelatedKey ==
    /\ \E key1 \in AllKeys \cup {None}, key2 \in AllKeys \cup {None} :
          related' = [called |-> TRUE, key1 |-> key1, key2 |-> key2,
                      result |-> is_related_key(key1, key2)]
    /\ UNCHANGED <<detvars, appvars, corrvars, votevars, capvars>>

SpecRelated == Init /\ [][IsRelatedKey]_vars

(***************************************************************************)
(* AutoKeyApp: the start/stop button, the capture callback and the         *)
(* analysis threads.  A thread is at "test" (about to evaluate             *)
(* while self.is_running), at "get_buffer" (waiting for the buffer lock),  *)
(* at "copy" (holding the lock, about to copy the buffer), at "detect"     *)
(* (inside detect_key with the snapshot it took), at "sleep" (in the       *)
(* time.sleep(0.1) that ends a tick), at "error" (in the time.sleep(0.5)   *)
(* of the except clause) or "done" (left the loop).                        *)
(***************************************************************************)
\* AudioEngine.start: True when already running or when the stream opens.
engine_start(opens) == engine_running \/ opens

\* The analysis threads that have entered and not left the while loop.
InLoop ==
    {t \in Threads :
        threads[t].pc \in {"test", "get_buffer", "copy", "detect", "sleep", "error"}}

\* AutoKeyApp._toggle_listening with is_running false: _start_listening.
\* opens tells whether the loopback stream can be opened.
StartListening(opens) ==
    /\ ~is_running
    /\ clicks < MaxClicks
    /\ \E t \in Threads : threads[t].pc = "none"
    /\ clicks' = clicks + 1
    /\ IF engine_start(opens)
         THEN /\ engine_running' = TRUE
              /\ ResetDetector
              /\ is_running' = TRUE
              /\ rebound' = TRUE
              /\ LET t == CHOOSE u \in Threads :
                              /\ threads[u].pc = "none"
                              /\ \A v \in Threads : threads[v].pc = "none" => u <= v
                 IN  threads' = [threads EXCEPT ![t].pc = "test"]
              /\ UNCHANGED <<ticks, audio_buffer, captured, lock, pending, corrvars, votevars, relvars, capvars>>
         ELSE UNCHANGED <<detvars, is_running, engine_running, audio_buffer, captured, lock,
                          pending, threads, rebound, corrvars, votevars, relvars, capvars>>

\* AutoKeyApp._toggle_listening with is_running true: _stop_listening
\* (AudioEngine.stop included).
StopListening ==
    /\ is_running
    /\ clicks < MaxClicks
    /\ clicks' = clicks + 1
    /\ is_running' = FALSE
    /\ engine_running' = FALSE
    /\ threads' = [t \in Threads |->
                     IF t \in InLoop THEN [threads[t] EXCEPT !.told = TRUE]
                     ELSE threads[t]]
    /\ UNCHANGED <<detvars, audio_buffer, captured, lock, pending, rebound, corrvars, votevars, relvars, capvars>>

\* Who can hold the buffer lock: the capture callback, and an analysis thread
\* inside get_buffer.
TheCallback == <<"callback", 0>>
Reader(t) == <<"get_buffer", t>>

\* threading.Lock: the lock is taken only when nobody holds it.
acquire_unguarded(l) == TRUE

acquire(l) == l = {}

\* AudioEngine._stream_callback, lines 117-125: the chunk is converted and the
\* callback enters "with self._lock".
CallbackBegin ==
    /\ engine_running
    /\ TheCallback \notin lock /\ pending = 0
    /\ captured + chunk_size <= MaxChunks * chunk_size
    /\ acquire(lock)
    /\ lock' = lock \cup {TheCallback}
    /\ pending' = chunk_size
    /\ UNCHANGED <<detvars, is_running, engine_running, audio_buffer, captured, threads, clicks,
                   rebound, corrvars, votevars, relvars, capvars>>

\* line 126, self.audio_buffer.extend(data): one more sample of the chunk; a full
\* deque drops its oldest sample.
CallbackAppend ==
    /\ TheCallback \in lock /\ pending > 0
    /\ audio_buffer' = DequeAppend(audio_buffer, captured + 1, buffer_size)
    /\ captured' = captured + 1
    /\ pending' = pending - 1
    /\ UNCHANGED <<detvars, is_running, engine_running, lock, threads, clicks,
                   rebound, corrvars, votevars, relvars, capvars>>

\* line 126: extend is over, the with block releases the lock.
CallbackEnd ==
    /\ TheCallback \in lock /\ pending = 0
    /\ lock' = lock \ {TheCallback}
    /\ UNCHANGED <<detvars, is_running, engine_running, audio_buffer, captured, pending, threads,
                   clicks, rebound, corrvars, votevars, relvars, capvars>>

\* _analysis_loop, line 240: the loop test.
LoopTest(t) ==
    /\ threads[t].pc = "test"
    /\ threads' = [threads EXCEPT ![t].pc =
                      IF is_running THEN "get_buffer" ELSE "done"]
    /\ UNCHANGED <<detvars, is_running, engine_running, audio_buffer, captured, lock, pending,
                   clicks, rebound, corrvars, votevars, relvars, capvars>>

\* _analysis_loop, line 243, and AudioEngine.get_buffer, line 215: the thread enters "with self._lock".
GetBufferAcquire(t) ==
    /\ threads[t].pc = "get_buffer"
    /\ acquire(lock)
    /\ lock' = lock \cup {Reader(t)}
    /\ threads' = [threads EXCEPT ![t].pc = "copy"]
    /\ UNCHANGED <<detvars, is_running, engine_running, audio_buffer, captured, pending, clicks,
                   rebound, corrvars, votevars, relvars, capvars>>

\* AudioEngine.get_buffer, line 216, and _analysis_loop, line 246: the buffer is
\* copied, the lock released, and an empty snapshot skips the tick.  A tick begins
\* when detect_key is called.
GetBufferCopy(t) ==
    /\ threads[t].pc = "copy"
    /\ lock' = lock \ {Reader(t)}
    /\ threads' = [threads EXCEPT
                      ![t].audio = audio_buffer,
                      ![t].pc = IF audio_buffer = <<>> THEN "sleep" ELSE "detect"]
    /\ rebound' = (rebound /\ audio_buffer = <<>>)
    /\ UNCHANGED <<detvars, is_running, engine_running, audio_buffer, captured, pending, clicks,
                   corrvars, votevars, relvars, capvars>>

\* The windows a snapshot can be.
AppInputs(audio) ==
    IF Len(audio) < min_samples THEN { Window(FALSE, 300, 300) }
    ELSE { Tick(1000, "none", CMajor, 890), Tick(1000, "correlate", None, 0),
           Window(TRUE, 300, 5) }

\* An exception that ends the thread.
after_tick_uncaught(fails) == IF fails THEN "done" ELSE "sleep"

\* _analysis_loop, lines 257 and 259-263: after a tick the thread sleeps 0.1 s, or
\* 0.5 s in the except clause when the tick raised.
after_tick(fails) == IF fails THEN "error" ELSE "sleep"

\* _analysis_loop, lines 248-254: detect_key returns and the result is handed to
\* the UI thread with root.after; fails tells whether root.after raises, which
\* takes the thread to the except clause.
Detect(t, a, fails) ==
    /\ threads[t].pc = "detect"
    /\ Budget(a, AppTicks)
    /\ DetectKey(a)
    /\ threads' = [threads EXCEPT ![t].pc = after_tick(fails)]
    /\ UNCHANGED <<is_running, engine_running, audio_buffer, captured, lock, pending, clicks,
                   rebound, corrvars, votevars, relvars, capvars>>

\* _analysis_loop, lines 257 and 263: time.sleep returns.
Wake(t) ==
    /\ threads[t].pc \in {"sleep", "error"}
    /\ threads' = [threads EXCEPT ![t].pc = "test"]
    /\ UNCHANGED <<detvars, is_running, engine_running, audio_buffer, captured, lock, pending,
                   clicks, rebound, corrvars, votevars, relvars, capvars>>

Step(t) ==
    \/ LoopTest(t)
    \/ GetBufferAcquire(t)
    \/ GetBufferCopy(t)
    \/ \E a \in AppInputs(threads[t].audio) : \E fails \in BOOLEAN : Detect(t, a, fails)
    \/ Wake(t)

NextApp ==
    \/ \E opens \in BOOLEAN : StartListening(opens)
    \/ StopListening
    \/ CallbackBegin
    \/ CallbackAppend
    \/ CallbackEnd
    \/ \E t \in Threads : Step(t)

SpecApp == Init /\ [][NextApp]_vars

\* The analysis threads are operating-system threads: each one is scheduled again
\* and again, and time.sleep returns.
SpecAppFair ==
    SpecApp /\ \A t \in Threads : WF_vars(Wake(t)) /\ WF_vars(LoopTest(t))

(***************************************************************************)
(* The length of the capture buffer, in samples, under the sample rate the *)
(* engine adopts: AudioEngine as AutoKeyApp constructs it, one capture     *)
(* session, the analysis loop calling detect_key on what get_buffer        *)
(* returns.                                                                *)
(***************************************************************************)
\* The device rates the loopback device may report as its defaultSampleRate.
DeviceRates == {44100, 48000, 96000}

\* AudioEngine.__init__, line 47: int(sample_rate * buffer_seconds), with the
\* sample_rate of the constructor whatever rate the device reports later.
buffer_size_samples == (configured_sample_rate * buffer_tenths) \div 10

\* detect_key, line 345: int(self.sample_rate * 1.0)
min_window(sample_rate) == sample_rate

\* AudioEngine.start and the lines of _start_listening after it: the device's rate
\* is adopted by the engine and by the detector; the buffer is left as it is, so
\* all it holds is from before this start.
EngineStart(rate) ==
    /\ ~capturing
    /\ starts < MaxSessions
    /\ starts' = starts + 1
    /\ capturing' = TRUE
    /\ actual_sample_rate' = rate
    /\ detector_sample_rate' = rate
    /\ stale' = buffered
    /\ window' = [called |-> FALSE, short |-> FALSE, stale |-> 0, phase |-> window.phase]
    /\ UNCHANGED <<buffered, detvars, appvars, corrvars, votevars, relvars>>

\* AudioEngine.stop, for a session that another one follows: the buffer is left as
\* it is.
EngineStop ==
    /\ capturing
    /\ starts < MaxSessions
    /\ capturing' = FALSE
    /\ UNCHANGED <<actual_sample_rate, detector_sample_rate, buffered, stale, starts, window,
                   detvars, appvars, corrvars, votevars, relvars>>

\* _stream_callback: one chunk of frames, mixed down to mono, extends the deque, which
\* drops its oldest samples when full.
StreamCallback ==
    /\ capturing
    /\ buffered' = Min(buffer_size_samples, buffered + configured_chunk_size)
    /\ stale' = Max(0, stale - Max(0, buffered + configured_chunk_size - buffer_size_samples))
    /\ UNCHANGED <<capturing, actual_sample_rate, detector_sample_rate, starts, window,
                   detvars, appvars, corrvars, votevars, relvars>>

\* One round of _analysis_loop: get_buffer, and detect_key on a non-empty snapshot,
\* up to its minimum buffer check.
AnalysisTick ==
    /\ capturing
    /\ buffered > 0
    /\ window' = [called |-> TRUE,
                  short  |-> buffered < min_window(detector_sample_rate),
                  stale  |-> stale,
                  phase  |-> 1 - window.phase]
    /\ UNCHANGED <<capturing, actual_sample_rate, detector_sample_rate, buffered, stale, starts,
                   detvars, appvars, corrvars, votevars, relvars>>

NextCapture ==
    \/ \E rate \in DeviceRates : EngineStart(rate)
    \/ EngineStop
    \/ StreamCallback
    \/ AnalysisTick

SpecCapture == Init /\ [][NextCapture]_vars

\* Sustained capture in a session that is started: the stream keeps calling back
\* and the analysis thread keeps coming back from its sleep.
SpecCaptureFair ==
    SpecCapture /\ WF_vars(StreamCallback) /\ WF_vars(AnalysisTick)
                /\ WF_vars(\E rate \in DeviceRates : EngineStart(rate))

(***************************************************************************)
(* The claims.  Each is a predicate on the state after a call: pre is the  *)
(* detector when the call began, op the call, det and ret its outcome.     *)
(***************************************************************************)
Called == op.call = "detect_key"
Arg == op.a
TooShort == Called /\ ~Arg.long
TailSilent == Called /\ Arg.long /\ Arg.recent_rms < min_rms_threshold
OnlyOverallSilent ==
    Called /\ Arg.long /\ Arg.recent_rms >= min_rms_threshold /\ Arg.rms < min_rms_threshold
NonSilent ==
    Called /\ Arg.long /\ Arg.recent_rms >= min_rms_threshold /\ Arg.rms >= min_rms_threshold
\* The tick produced a raw detection and ran the locking logic on it.
Analysed == NonSilent /\ ~op.raised
Failed == NonSilent /\ op.raised
AboveThreshold == Arg.conf >= effective_threshold(Arg.rms)
WasLocked == pre.current_key # None
ReturnsKey(k) == k # None /\ ret[1] = k[1] /\ ret[2] = k[2]

\* C1 as stated: once a key is locked, every detect_key call on a non-silent window of
\* at least one second returns the name and mode of the currently locked key, whatever
\* the raw detection and its confidence are (stated here for the calls whose
\* computation does not raise).
C1_AlwaysLockedKey ==
    (WasLocked /\ Analysed) => ReturnsKey(det.current_key)

\* C1, amended: once a key is locked, the key stays locked over every detect_key call
\* on a non-silent window of at least one second, and the call returns the name and
\* mode of the currently locked key, with two exceptions: a tick whose confidence is
\* below the effective threshold while lock_strength is not above 0.3 returns
\* (None, None, confidence), and a tick whose computation raises returns
\* (None, None, 0.0).
C1_LockedKeyReturned ==
    (WasLocked /\ NonSilent) =>
        /\ det.current_key # None
        /\ IF Failed
             THEN ret = NoKeyReturned
           ELSE IF AboveThreshold \/ pre.lock_strength > 300
             THEN ReturnsKey(det.current_key)
           ELSE ret = <<"None", "None", Arg.conf>> /\ det.current_key = pre.current_key

\* A lock worn down to 0.3 or less meets a low-confidence tick.
C1_Witness ==
    /\ WasLocked /\ Analysed
    /\ ~AboveThreshold /\ pre.lock_strength <= 300
    /\ ret = <<"None", "None", Arg.conf>>
    /\ det.current_key = pre.current_key

\* C2: while locked on K, a tick whose raw detection is the relative key of K with a
\* confidence at or above the effective threshold and below 0.70 leaves current_key
\* unchanged and returns K.
C2_RelativeKeyBlocked ==
    ( /\ WasLocked /\ Analysed
      /\ is_related_key(Arg.key, pre.current_key)
      /\ AboveThreshold /\ Arg.conf < 700 )
    => (det.current_key = pre.current_key /\ ReturnsKey(pre.current_key))

\* Five consecutive C Major ticks at confidence 0.5 while locked on A Minor.
C2_Witness ==
    /\ Analysed /\ Arg.key = CMajor /\ Arg.conf = 500 /\ run = 5
    /\ pre.current_key = AMinor /\ det.current_key = AMinor
    /\ ReturnsKey(AMinor)

\* C3: a window shorter than one second returns (None, None, 0.0) and leaves every
\* detector field unchanged.
C3_ShortWindowNoMutation ==
    TooShort => (ret = NoKeyReturned /\ det = pre)

C3_Witness ==
    TooShort /\ WasLocked /\ det.lock_strength > 0 /\ det.recent_detections # <<>>

\* C4 as stated: whenever the RMS of the whole window is below the silence floor, even
\* if the RMS of its trailing half second is not, the LockState is reset to its initial
\* empty form and no key is returned.
C4_OverallSilenceResets ==
    (Called /\ Arg.long /\ Arg.rms < min_rms_threshold)
    => (det = NewDetector /\ ret = NoKeyReturned)

\* C4, amended: whenever the RMS of the trailing half second is below the silence floor
\* the LockState is reset to its initial empty form and (None, None, 0.0) is returned;
\* when only the RMS of the whole window is below the floor, (None, None, 0.0) is
\* returned and the LockState is left as it was.
C4_SilenceHandling ==
    /\ TailSilent => (det = NewDetector /\ ret = NoKeyReturned)
    /\ OnlyOverallSilent => (det = pre /\ ret = NoKeyReturned)

C4_Witness ==
    OnlyOverallSilent /\ WasLocked /\ det.current_key = pre.current_key

\* C5: from a locked state, a tick on a window of at least one second whose trailing
\* half second is below the silence floor returns (None, None, 0.0) and leaves the
\* LockState fully cleared.
C5_TailSilenceClears ==
    (WasLocked /\ TailSilent) =>
        /\ ret = NoKeyReturned
        /\ det.current_key = None
        /\ det.current_confidence = 0
        /\ det.lock_strength = 0
        /\ det.same_key_count = 0 /\ det.high_confidence_count = 0
        /\ det.chroma_short = 0 /\ det.chroma_long = 0
        /\ det.avg_rms_history = <<>> /\ det.avg_confidence_history = <<>>
        /\ det.recent_detections = <<>>
        /\ det.adaptive_lock_frames = frames_to_lock
        /\ det.adaptive_unlock_frames = frames_to_unlock
        /\ det = NewDetector

C5_Witness ==
    /\ WasLocked /\ TailSilent
    /\ pre.adaptive_lock_frames # frames_to_lock
    /\ Arg.rms >= min_rms_threshold

\* C6: after reset(), while only silent input of any length is fed, every detect_key
\* call returns (None, None, 0.0) and lock_strength stays 0.
C6_SilentAfterReset ==
    silent_since_reset =>
        (det.lock_strength = 0 /\ (Called => ret = NoKeyReturned))

C6_Witness ==
    silent_since_reset /\ Called /\ Arg.long /\ run >= 2 /\ ticks >= 9

\* C7: while locked on K, a tick that re-detects K with a confidence at or above the
\* effective threshold does not lower lock_strength: it rises by 0.1, capped at 1.0.
C7_StrengthMonotone ==
    (WasLocked /\ Analysed /\ Arg.key = pre.current_key /\ AboveThreshold) =>
        /\ det.lock_strength >= pre.lock_strength
        /\ det.lock_strength = Min(1000, pre.lock_strength + 100)

C7_Witness ==
    /\ WasLocked /\ Analysed /\ Arg.key = pre.current_key /\ AboveThreshold
    /\ pre.lock_strength = 1000 /\ det.lock_strength = 1000

\* Scenario A: every call so far was a tick detecting C Major at confidence 0.89.
ScenarioA == Analysed /\ Arg.key = CMajor /\ Arg.conf = 890 /\ run = ticks

\* C8: from a fresh detector, ticks that all detect C Major at confidence 0.89 lock
\* C Major within frames_to_lock ticks, the key then stays locked, and the 20th tick
\* returns (C, Major, 0.89).
C8_ScenarioA ==
    ScenarioA =>
        /\ ticks >= frames_to_lock => det.current_key = CMajor
        /\ WasLocked => det.current_key = CMajor
        /\ det.current_key # None => ReturnsKey(CMajor)
        /\ ticks = 20 => ret = <<"C", "Major", 890>>

C8_Witness ==
    ScenarioA /\ ticks = 20 /\ det.current_key = CMajor /\ ret = <<"C", "Major", 890>>

\* The fields of the LockState: every field but the chroma histories of the temporal
\* aggregator.
LockState(s) == [s EXCEPT !.chroma_short = 0, !.chroma_long = 0]

\* C9 as stated: a tick in which feature extraction, correlation or a later step fails
\* returns (None, None, 0.0) and no LockState field (current_key, current_confidence,
\* lock_strength, counters, rolling histories) differs from its value before the call.
C9_FailureLeavesState ==
    Failed => (ret = NoKeyReturned /\ LockState(det) = LockState(pre))

\* C9, amended: a tick in which a step inside the try block fails returns
\* (None, None, 0.0) without raising, and a key locked before the tick is still the
\* locked key after it.  If the failing step is feature extraction or correlation, no
\* LockState field differs from its value before the call (a failure of correlation
\* leaves the tick's chroma vector in the chroma histories).  If it is a later step,
\* the updates made before it are kept: the RMS, confidence and detection histories
\* hold the tick's values, and a tick that was locking the detected key leaves it
\* locked although it returned no key.
C9_FailureKeepsLock ==
    Failed =>
        /\ ret = NoKeyReturned
        /\ WasLocked => det.current_key = pre.current_key
        /\ Arg.fail = "features" => det = pre
        /\ Arg.fail = "correlate" =>
              /\ LockState(det) = LockState(pre)
              /\ det.chroma_short = LenAppend(pre.chroma_short, short_history)
              /\ det.chroma_long = LenAppend(pre.chroma_long, long_history)
        /\ Arg.fail = "print" =>
              /\ det.avg_rms_history =
                    DequeAppend(pre.avg_rms_history, Arg.rms, rms_history_maxlen)
              /\ det.avg_confidence_history =
                    DequeAppend(pre.avg_confidence_history, Arg.conf, rms_history_maxlen)
              /\ det.recent_detections =
                    DequeAppend(pre.recent_detections, <<Arg.key, Arg.conf>>,
                                recent_detections_maxlen)
              /\ ~WasLocked => det.current_key = Arg.key

\* A lock survives a tick whose correlation fails.
C9_Witness ==
    /\ Failed /\ Arg.fail = "correlate" /\ WasLocked
    /\ det.current_key = pre.current_key
    /\ det.lock_strength = pre.lock_strength /\ det.lock_strength > 0
    /\ det.chroma_short > pre.chroma_short

\* The analysis threads inside a detect_key call.
InDetect == {t \in Threads : threads[t].pc = "detect"}

\* C10: over any sequence of start-listening and stop-listening actions, no two
\* detect_key calls on the shared KeyDetector overlap: at any time at most one analysis
\* thread is inside detect_key.
C10_TicksSequential == Cardinality(InDetect) <= 1

\* The snapshot or buffer content after total samples were appended: the most recent
\* min(total, buffer_size) of them in capture order.
MostRecent(total) ==
    LET n == Min(total, buffer_size)
    IN  [i \in 1..n |-> total - n + i]

\* A detect_key call begins.
TickBegins(t) == threads[t].pc = "copy" /\ threads'[t].pc = "detect"

\* C11: whenever listening is (re)started, the LockState is in its initial empty form
\* when the first detect_key call after the restart begins: no detect_key call that
\* began before the restart's reset() writes lock state after it.
C11_RebindResets ==
    [][(rebound /\ \E t \in Threads : TickBegins(t))
          => LockState(det) = LockState(NewDetector)]_vars

\* C12: after any interleaving of capture callbacks and get_buffer calls the buffer
\* holds at most buffer_size samples, and they are the most recent
\* min(samples appended, buffer_size) samples in capture order.
C12_BufferHoldsMostRecent ==
    /\ Len(audio_buffer) <= buffer_size
    /\ audio_buffer = MostRecent(captured)

\* Appends went on into a full buffer while a thread still worked on an older
\* snapshot.
C12_Witness ==
    /\ captured > buffer_size + chunk_size
    /\ Len(audio_buffer) = buffer_size
    /\ audio_buffer[1] = captured - buffer_size + 1
    /\ \E t \in Threads :
          /\ threads[t].pc = "detect"
          /\ Len(threads[t].audio) = buffer_size
          /\ threads[t].audio # audio_buffer

\* The array is the buffer as it was right after a whole chunk was appended.
WholeChunks(audio) ==
    \/ audio = <<>>
    \/ /\ audio[Len(audio)] % chunk_size = 0
       /\ audio = MostRecent(audio[Len(audio)])

\* C13: the callback's append and get_buffer's copy exclude each other: every array
\* get_buffer returns is the buffer content at an instant between two whole chunk
\* appends.
C13_SnapshotBetweenAppends ==
    /\ Cardinality(lock) <= 1
    /\ \A t \in Threads : WholeChunks(threads[t].audio)

\* A thread copies a full buffer whose oldest chunk is half evicted while the
\* callback waits for the lock.
C13_Witness ==
    \E t \in Threads :
        /\ threads[t].pc = "detect"
        /\ Len(threads[t].audio) = buffer_size
        /\ threads[t].audio[1] % chunk_size = 0
        /\ engine_running /\ pending = 0 /\ lock = {}

\* C14: after a stop click clears is_running, every analysis thread that was in its
\* loop at that moment leaves the loop at its next loop test, whatever start and stop
\* clicks follow.
C14_StoppedThreadsExit ==
    [][\A t \in Threads :
          (threads[t].told /\ threads[t].pc = "test")
              => threads'[t].pc \in {"test", "done"}]_vars

\* C15: a failure raised during a tick never ends the analysis loop: the loop is left
\* only through its test of is_running, a thread in the error sleep reaches a later
\* iteration unless is_running is cleared, and a detect_key call whose computation
\* raised reports (None, None, 0.0).
C15_LoopSurvivesFailure ==
    /\ [][\A t \in Threads :
            (threads[t].pc # "done" /\ threads'[t].pc = "done")
                => (threads[t].pc = "test" /\ ~is_running)]_vars
    /\ \A t \in Threads :
          (threads[t].pc = "error") ~> (threads[t].pc = "get_buffer" \/ ~is_running)
    /\ [](op.raised => ret = NoKeyReturned)

\* A thread is in the error sleep after a tick whose detect_key raised as well.
C15_Witness ==
    \E t \in Threads :
        threads[t].pc = "error" /\ op.raised /\ ret = NoKeyReturned /\ is_running

\* C16: reset() puts every lock-state field and every history back to the value it has
\* right after construction, so a reset detector and a new one give the same result and
\* the same next state on any tick; a second reset() changes nothing.
C16_ResetRestoresConstruction ==
    (op.call = "reset") =>
        /\ det = NewDetector
        /\ reset(det) = det
        /\ \A a \in Inputs : detect_key(det, a) = detect_key(NewDetector, a)

\* A reset of a locked detector whose adaptive frame counts had moved.
C16_Witness ==
    /\ op.call = "reset"
    /\ pre.current_key # None /\ pre.lock_strength > 0
    /\ pre.last_detected_key # None
    /\ pre.adaptive_lock_frames # frames_to_lock
    /\ pre.recent_detections # <<>>

\* C17: lock_strength lies in [0, 1] after any sequence of detect_key and reset calls.
C17_StrengthInUnitInterval ==
    det.lock_strength >= 0 /\ det.lock_strength <= 1000

\* The cap is reached from 0.9.
C17_Witness ==
    /\ Analysed /\ Arg.key = pre.current_key
    /\ pre.lock_strength = 900 /\ det.lock_strength = 1000

\* C20 as stated: on every tick whose confidence is below the effective threshold a
\* positive lock_strength strictly decreases.
C20_LowConfidenceDecays ==
    (Analysed /\ ~AboveThreshold /\ pre.lock_strength > 0)
        => det.lock_strength < pre.lock_strength

\* C20, amended: a tick whose confidence is below the effective threshold leaves
\* lock_strength and the locked key as they were and sets same_key_count to 0.
C20_LowConfidenceKeepsStrength ==
    (Analysed /\ ~AboveThreshold) =>
        /\ det.lock_strength = pre.lock_strength
        /\ det.current_key = pre.current_key
        /\ det.same_key_count = 0

\* A low-confidence tick on a locked detector.
C20_Witness ==
    /\ Analysed /\ ~AboveThreshold
    /\ WasLocked /\ pre.lock_strength > 0 /\ pre.same_key_count > 0
    /\ det.lock_strength = pre.lock_strength

\* _correlate_with_profiles was called.
Correlated == correlated[1] # "None"

\* C18: for every non-negative chroma vector that is unit-norm or all-zero, the
\* confidence _correlate_with_profiles returns lies in [0, 1].
C18_ConfidenceInUnitInterval ==
    correlated[4] >= 0 /\ correlated[4] <= 1000

\* The three profiles agree on a key with product 0.9: the value before the cap is
\* above 1.
C18_Witness ==
    /\ Correlated
    /\ correlated[3] = 20 * 90
    /\ raw_confidence(correlated[3], 0) > 1000
    /\ correlated[4] = 1000

ProfileTables == <<hpcp.edma, hpcp.shaath, hpcp.temperley>>
\* The largest product of a table.
Top(table) ==
    CHOOSE v \in CorrLevels :
        /\ \E i \in 1..12 : table.major[i] = v \/ table.minor[i] = v
        /\ \A i \in 1..12 : table.major[i] <= v /\ table.minor[i] <= v
\* The lowest rotation whose major or minor product is the largest of the table.
FirstShift(table) ==
    LET top == Top(table)
    IN  CHOOSE s \in 0..11 :
            /\ table.major[s + 1] = top \/ table.minor[s + 1] = top
            /\ \A u \in 0..(s - 1) :
                  table.major[u + 1] # top /\ table.minor[u + 1] # top
\* The key the claim names as the winner within one profile, and its product.
FirstKey(table) ==
    LET s == FirstShift(table)
        top == Top(table)
    IN  [ key  |-> <<KEY_NAMES[s + 1],
                     IF table.major[s + 1] = top THEN "Major" ELSE "Minor">>,
          corr |-> top ]
ExpectedVotes == [p \in 1..3 |-> FirstKey(ProfileTables[p])]
\* The combined score of a key: the weighted products of the profiles that vote for it.
Total(expected, key) ==
    LET vote(p) == IF expected[p].key = key
                     THEN <<9, 7, 4>>[p] * expected[p].corr ELSE 0
    IN  vote(1) + vote(2) + vote(3)
\* The first profile that votes for the key.
FirstVote(expected, key) ==
    CHOOSE p \in 1..3 :
        expected[p].key = key /\ \A q \in 1..(p - 1) : expected[q].key # key

\* C19: among candidates that score the same the one met first wins: within a profile
\* the lowest rotation, and Major before Minor at the same rotation; in the combined
\* ranking the key whose first vote came from the earliest profile in the order EDMA,
\* Sha'ath, Temperley.
C19_FirstWinsTies ==
    Correlated =>
        LET expected == ExpectedVotes
            winner   == <<correlated[1], correlated[2]>>
            voted    == {expected[p].key : p \in 1..3}
        IN  /\ \A p \in 1..3 :
                  LET r == detect_key_with_profile(ProfileTables[p])
                  IN  key_string(r) = expected[p].key /\ r.corr = expected[p].corr
            /\ winner \in voted
            /\ correlated[3] = Total(expected, winner)
            /\ \A k \in voted :
                  \/ Total(expected, k) < correlated[3]
                  \/ /\ Total(expected, k) = correlated[3]
                     /\ FirstVote(expected, winner) <= FirstVote(expected, k)

\* EDMA ties C major with C minor and votes C Major with 0.45 * 0.7; Sha'ath ties
\* C minor with A minor and votes C Minor with 0.35 * 0.9, the same score.
C19_Witness ==
    /\ Correlated
    /\ hpcp.edma = Table(70, 70, 0)
    /\ hpcp.shaath = Table(0, 90, 90)
    /\ hpcp.temperley = Table(0, 0, 0)
    /\ Total(ExpectedVotes, <<"C", "Major">>) = Total(ExpectedVotes, <<"C", "Minor">>)
    /\ correlated[1] = "C" /\ correlated[2] = "Major"

\* An above-threshold tick on a locked detector whose detection is another key.
OtherKeyTick ==
    WasLocked /\ Analysed /\ AboveThreshold /\ Arg.key # pre.current_key
\* Such a tick with the relative key of the locked key, below 0.70.
BlockedTick ==
    OtherKeyTick /\ is_related_key(Arg.key, pre.current_key) /\ Arg.conf < 700
\* The tick changed the locked key.
Switched == WasLocked /\ Analysed /\ det.current_key # pre.current_key

\* C21 as stated: while locked, every above-threshold tick whose detection differs
\* from the locked key and that does not switch multiplies lock_strength by 0.95, the
\* ticks with a blocked relative key included.
C21_EveryOtherKeyDecays ==
    (OtherKeyTick /\ ~Switched) =>
        det.lock_strength = (pre.lock_strength * 95) \div 100

\* C21, amended: while locked, an above-threshold tick whose detection differs from
\* the locked key and that does not switch multiplies lock_strength by 0.95, unless
\* the detection is the relative key with confidence below 0.70: such a blocked tick
\* leaves lock_strength as it was.
C21_UnblockedOtherKeyDecays ==
    (OtherKeyTick /\ ~Switched) =>
        IF BlockedTick THEN det.lock_strength = pre.lock_strength
        ELSE det.lock_strength = (pre.lock_strength * 95) \div 100

\* A blocked relative-key tick on a lock of strength 0.7.
C21_Witness ==
    BlockedTick /\ pre.lock_strength = 700 /\ det.lock_strength = 700

\* The state of an above-threshold tick once its detection is in recent_detections.
Tracked ==
    track_detection(update_adaptive_thresholds(pre, Arg.rms, Arg.conf), Arg)
\* The state of an unlocked tick after the counting of lines 436-447.
Counted == count_streaks(Tracked, Arg.key, Arg.conf)
\* The state of a different-key tick after the counting and decay of lines 499-507.
Decayed == count_and_decay([Tracked EXCEPT !.high_confidence_count = 0], Arg.key)

\* The four lock and switch events of a tick.
QuickLockEvent ==
    /\ Analysed /\ AboveThreshold /\ ~WasLocked
    /\ can_quick_lock(Counted, Arg.key)
NormalLockEvent ==
    /\ Analysed /\ AboveThreshold /\ ~WasLocked
    /\ ~can_quick_lock(Counted, Arg.key)
    /\ Counted.same_key_count >= Counted.adaptive_lock_frames
FastSwitchEvent ==
    /\ OtherKeyTick /\ ~BlockedTick
    /\ can_fast_switch(Decayed, Arg.key, Arg.conf)
OrdinarySwitchEvent ==
    /\ OtherKeyTick /\ ~BlockedTick
    /\ ~can_fast_switch(Decayed, Arg.key, Arg.conf)
    /\ Decayed.same_key_count >= Decayed.adaptive_unlock_frames
LockOrSwitchEvent ==
    QuickLockEvent \/ NormalLockEvent \/ FastSwitchEvent \/ OrdinarySwitchEvent
CountersCleared == det.same_key_count = 0 /\ det.high_confidence_count = 0
InitialStrength ==
    /\ QuickLockEvent => det.lock_strength = 700
    /\ NormalLockEvent => det.lock_strength = 500
    /\ FastSwitchEvent => det.lock_strength = 600
    /\ OrdinarySwitchEvent => det.lock_strength = 500

\* C22 as stated: on every lock or switch event (quick-lock, normal lock, fast-switch,
\* ordinary switch) same_key_count and high_confidence_count are 0 when detect_key
\* returns and lock_strength has the initial value of the transition.
C22_EventsClearCounters ==
    LockOrSwitchEvent => (det.current_key = Arg.key /\ CountersCleared /\ InitialStrength)

\* C22, amended: every lock or switch event makes the detected key the locked key with
\* lock_strength 0.7 (quick-lock), 0.5 (normal lock), 0.6 (fast-switch) or 0.5
\* (ordinary switch).  The two switches leave both counters 0; the two locks leave
\* both counters as the tick counted them: same_key_count at least 1 and, on a
\* quick-lock, high_confidence_count at least 6.
C22_EventsSetStrength ==
    LockOrSwitchEvent =>
        /\ det.current_key = Arg.key
        /\ InitialStrength
        /\ (FastSwitchEvent \/ OrdinarySwitchEvent) => CountersCleared
        /\ (QuickLockEvent \/ NormalLockEvent) =>
              /\ det.same_key_count = Counted.same_key_count
              /\ det.high_confidence_count = Counted.high_confidence_count
              /\ det.same_key_count >= 1
        /\ QuickLockEvent => det.high_confidence_count >= quick_lock_threshold

\* A quick-lock on the sixth tick of a key: both counters are left at 6.
C22_Witness ==
    /\ QuickLockEvent
    /\ det.lock_strength = 700
    /\ det.same_key_count = 6 /\ det.high_confidence_count = 6

\* The other three events, each with its strength.
C22_NormalLockReached == NormalLockEvent /\ det.lock_strength = 500
C22_FastSwitchReached == FastSwitchEvent /\ det.lock_strength = 600 /\ CountersCleared
C22_OrdinarySwitchReached == OrdinarySwitchEvent /\ det.lock_strength = 500 /\ CountersCleared

\* The last n entries of recent_detections are detections of key above 0.65.
LastDetectionsHigh(s, key, n) ==
    LET rd == s.recent_detections
    IN  /\ Len(rd) >= n
        /\ \A i \in (Len(rd) - n + 1)..Len(rd) : rd[i][1] = key /\ rd[i][2] > 650
\* A tick on an unlocked detector that ran the locking logic.
UnlockedTick == Analysed /\ ~WasLocked

\* C23 as stated: a quick-lock on K fires only when each of the 6 most recent ticks
\* detected K above 0.65 (so the tick before it was a counted tick of K, the fifth at
\* least) and 80% of recent_detections agree on K; every tick at or below 0.65, one
\* below the effective threshold included, restarts the streak.
C23_QuickLockNeedsSixLatestTicks ==
    /\ QuickLockEvent =>
          /\ pre.same_key_count >= quick_lock_threshold - 1
          /\ pre.last_detected_key = Arg.key
          /\ Arg.conf > 650
          /\ check_strong_consensus(det, Arg.key)
    /\ (UnlockedTick /\ Arg.conf <= 650) => det.high_confidence_count = 0

\* What the code does about C23: a quick-lock on K fires only when each of the 6
\* most recent ticks that reached the effective threshold detected K above 0.65 and
\* 80% of recent_detections agree on K.  A tick that reaches the threshold restarts
\* the streak when its confidence is at or below 0.65 (to 0) or when it detects
\* another key (to 1 or 0); a tick below the effective threshold is not recorded in
\* recent_detections and leaves the streak as it was.
C23_QuickLockNeedsSixLatestDetections ==
    /\ QuickLockEvent =>
          /\ LastDetectionsHigh(det, Arg.key, quick_lock_threshold)
          /\ det.high_confidence_count >= quick_lock_threshold
          /\ pre.high_confidence_count >= quick_lock_threshold - 1
          /\ check_strong_consensus(det, Arg.key)
    /\ (UnlockedTick /\ AboveThreshold /\ Arg.conf <= 650) =>
          det.high_confidence_count = 0
    /\ (UnlockedTick /\ AboveThreshold /\ Arg.key # pre.last_detected_key) =>
          det.high_confidence_count <= 1
    /\ (UnlockedTick /\ ~AboveThreshold) =>
          /\ det.high_confidence_count = pre.high_confidence_count
          /\ det.recent_detections = pre.recent_detections
          /\ det.last_detected_key = pre.last_detected_key

\* A quick-lock on the tick that follows a tick below the effective threshold.
C23_QuickLockAfterLowTick ==
    /\ QuickLockEvent
    /\ pre.same_key_count = 0
    /\ pre.high_confidence_count = quick_lock_threshold - 1
    /\ det.current_key = Arg.key

\* A tick on a locked detector that ran the locking logic.
LockedTick == Analysed /\ WasLocked

Agreeing(rd, key) == Cardinality({i \in 1..Len(rd) : rd[i][1] = key})
\* The switch counter of a different-key tick, the tick counted.
SwitchCount ==
    IF Arg.key = pre.last_detected_key THEN pre.same_key_count + 1 ELSE 1
\* The tick switched with the strength of a fast-switch.
FastSwitched == Switched /\ det.current_key = Arg.key /\ det.lock_strength = 600

\* C25 as stated: once a lock on K is established, 5 consecutive ticks that detect
\* another key D above 0.75 are enough: the fast-switch to D fires on the 5th.
C25_FifthTickSwitches ==
    (LockedTick /\ Arg.key # pre.current_key /\ Arg.conf > 750 /\ run = 5) =>
        FastSwitched

\* C25, amended: while locked on K, a tick that detects another key D fast-switches
\* to D exactly when its confidence is above 0.75, the switch counter has reached 5
\* and recent_detections, the tick included, holds at least 6 detections of which at
\* least 80% are D.  A locked detector holds at least 6 recent detections, so with a
\* full deque of 10 the fast-switch needs 8 detections of D among the latest 10, not 5.
C25_FastSwitchNeedsConsensus ==
    /\ (OtherKeyTick /\ ~BlockedTick) =>
          (FastSwitched <=>
              /\ Arg.conf > 750
              /\ SwitchCount >= 5
              /\ Len(det.recent_detections) >= 6
              /\ 10 * Agreeing(det.recent_detections, Arg.key)
                    >= 8 * Len(det.recent_detections))
    /\ det.current_key # None => Len(det.recent_detections) >= 6
    /\ (FastSwitched /\ Len(det.recent_detections) = recent_detections_maxlen) =>
          Agreeing(det.recent_detections, Arg.key) >= 8

\* A fast-switch on the 8th consecutive tick of the new key above 0.75: the 5th, 6th
\* and 7th did not switch.
C25_Witness ==
    /\ LockedTick /\ Arg.key # pre.current_key /\ Arg.conf > 750
    /\ FastSwitched
    /\ run = 8 /\ pre.same_key_count = 7
    /\ Agreeing(det.recent_detections, Arg.key) = 8

\* C26: from the unlocked state, a key detected at or above the effective threshold on
\* 20 consecutive non-silent ticks is locked no later than the 20th: the adaptive lock
\* threshold never exceeds 20, every such tick of an unlocked detector counts at
\* least the ticks of its run, locks no key but the detected one, and leaves the
\* detector unlocked only while the count is below the adaptive lock threshold.
C26_LockedWithinTwentyTicks ==
    /\ det.adaptive_lock_frames <= 20
    /\ (UnlockedTick /\ AboveThreshold) =>
          /\ det.same_key_count >= run
          /\ det.current_key \in {None, Arg.key}
          /\ det.current_key = None =>
                /\ det.same_key_count < det.adaptive_lock_frames
                /\ run < 20

\* A normal lock on the 13th consecutive tick of a key at 0.5, the slow lock of a
\* history with low average confidence.
C26_Witness ==
    /\ NormalLockEvent
    /\ run = 13 /\ det.same_key_count = 13 /\ det.adaptive_lock_frames = 13
    /\ det.current_key = Arg.key

\* Rolling averages of RMS and confidence on both sides of every band limit.
AvgRmsLevels == {0, 10, 60, 99, 100, 300, 499, 500, 1000}
AvgConfLevels == {0, 10, 400, 401, 500, 600, 601, 890, 1000}
FramesInRange(to_lock, to_unlock) ==
    /\ to_lock < to_unlock
    /\ to_lock \in 6..20
    /\ to_unlock \in 15..30

\* C27: in every reachable state adaptive_lock_frames is strictly smaller than
\* adaptive_unlock_frames, with adaptive_lock_frames in 6..20 and
\* adaptive_unlock_frames in 15..30; so is every pair _update_adaptive_thresholds
\* computes from rolling averages in any of the bands.
C27_LockBelowUnlock ==
    /\ FramesInRange(det.adaptive_lock_frames, det.adaptive_unlock_frames)
    /\ \A r \in AvgRmsLevels, c \in AvgConfLevels :
          FramesInRange(AdaptiveFrames(r, c, 1).lock, AdaptiveFrames(r, c, 1).unlock)

\* The thresholds after ten loud ticks of low confidence: 19 frames to lock, 30 to
\* switch; those of the tick before were the initial 15 and 25.
C27_Witness ==
    /\ Analysed
    /\ pre.adaptive_lock_frames = frames_to_lock
    /\ pre.adaptive_unlock_frames = frames_to_unlock
    /\ det.adaptive_lock_frames = 19
    /\ det.adaptive_unlock_frames = 30

\* The sums and the length of the detector's rolling histories.
RmsSum == SumSeq(det.avg_rms_history)
ConfSum == SumSeq(det.avg_confidence_history)
HistoryLen == Len(det.avg_rms_history)
\* adaptive_lock_frames for the detector's histories with the rolling average RMS
\* replaced by r, and with the rolling average confidence replaced by c.
LockFramesAtRms(r) == AdaptiveFrames(r * HistoryLen, ConfSum, HistoryLen).lock
LockFramesAtConf(c) == AdaptiveFrames(RmsSum, c * HistoryLen, HistoryLen).lock
\* The thresholds in force are those of the histories.
FramesFromHistories ==
    det.adaptive_lock_frames = AdaptiveFrames(RmsSum, ConfSum, HistoryLen).lock
\* A quieter average never needs more frames to lock than the detector's own, a
\* louder one never fewer.
QuieterLocksNoSlower ==
    \A r \in AvgRmsLevels :
        /\ r * HistoryLen <= RmsSum => LockFramesAtRms(r) <= det.adaptive_lock_frames
        /\ r * HistoryLen >= RmsSum => LockFramesAtRms(r) >= det.adaptive_lock_frames

\* C28 as stated: the adaptive lock threshold is monotone in signal quality: a
\* quieter rolling average RMS never gives a larger adaptive_lock_frames than a
\* louder one, and a lower rolling average confidence never gives a larger
\* adaptive_lock_frames than a higher one.
C28_LowConfidenceLocksFaster ==
    HistoryLen >= 10 =>
        /\ FramesFromHistories
        /\ QuieterLocksNoSlower
        /\ \A c \in AvgConfLevels :
              /\ c * HistoryLen <= ConfSum =>
                    LockFramesAtConf(c) <= det.adaptive_lock_frames
              /\ c * HistoryLen >= ConfSum =>
                    LockFramesAtConf(c) >= det.adaptive_lock_frames

\* C28, amended: for the same confidence band a quieter rolling average RMS never
\* gives a larger adaptive_lock_frames than a louder one; for the same loudness band
\* a lower rolling average confidence never gives a smaller adaptive_lock_frames
\* than a higher one (low-confidence material needs more frames to lock, not fewer).
C28_LowConfidenceLocksSlower ==
    HistoryLen >= 10 =>
        /\ FramesFromHistories
        /\ QuieterLocksNoSlower
        /\ \A c \in AvgConfLevels :
              /\ c * HistoryLen <= ConfSum =>
                    LockFramesAtConf(c) >= det.adaptive_lock_frames
              /\ c * HistoryLen >= ConfSum =>
                    LockFramesAtConf(c) <= det.adaptive_lock_frames

\* A quiet tick of low confidence that takes the rolling average confidence from the
\* medium band to the low band: adaptive_lock_frames rises from 8 to 13.
C28_Witness ==
    /\ Analysed /\ Arg.rms = 60 /\ Arg.conf = 10
    /\ HistoryLen >= 11
    /\ RmsSum = 60 * HistoryLen
    /\ ConfSum <= 400 * HistoryLen
    /\ pre.adaptive_lock_frames = 8
    /\ det.adaptive_lock_frames = 13

\* The rolling histories before the tick.
PreLen == Len(pre.avg_rms_history)
PreRmsSum == SumSeq(pre.avg_rms_history)
\* The threshold the bands of lines 406-413 give for a loudness of rms out of n.
BandThreshold(rms, n) ==
    IF rms < 100 * n THEN 72 ELSE IF rms < 500 * n THEN 96 ELSE 120
\* The tick's detection was taken as a detection of an unlocked detector.
TickCounted == det.same_key_count >= 1

\* C29 as stated: the effective confidence threshold applied to a tick is derived
\* from the rolling loudness history: a quieter history lowers it below the base
\* threshold (here: once the history holds 10 ticks, an unlocked detector accepts the
\* tick exactly when its confidence reaches the threshold of the history's band).
C29_ThresholdFromHistory ==
    (UnlockedTick /\ HistoryLen >= 10) =>
        (TickCounted <=> Arg.conf >= BandThreshold(RmsSum, HistoryLen))

\* C29, amended: the effective confidence threshold applied to a tick is derived from
\* the RMS of the tick's own window alone: 0.6 times the base threshold below RMS
\* 0.01, 0.8 times below 0.05 and the base threshold otherwise, never more than the
\* base threshold.  The rolling histories do not enter: a tick is accepted exactly when
\* its confidence reaches the threshold of its own loudness, whatever the history.
C29_ThresholdFromTick ==
    /\ UnlockedTick => (TickCounted <=> Arg.conf >= BandThreshold(Arg.rms, 1))
    /\ (Analysed /\ Arg.conf < BandThreshold(Arg.rms, 1)) =>
          /\ det.recent_detections = pre.recent_detections
          /\ det.same_key_count = 0
    /\ (Analysed /\ Arg.conf >= BandThreshold(Arg.rms, 1)) =>
          /\ det.recent_detections # <<>>
          /\ det.recent_detections[Len(det.recent_detections)] = <<Arg.key, Arg.conf>>
    /\ Called => BandThreshold(Arg.rms, 1) <= confidence_threshold

\* A loud tick at confidence 0.10 is rejected after ten quiet ticks that were accepted
\* at the same confidence: the quiet history does not lower its threshold.
C29_Witness ==
    /\ UnlockedTick
    /\ PreLen >= 10 /\ PreRmsSum = 60 * PreLen
    /\ pre.same_key_count >= 10
    /\ Arg.rms = 1000 /\ Arg.conf = 100
    /\ det.same_key_count = 0
    /\ det.recent_detections = pre.recent_detections

\* An above-threshold tick on a locked detector that detects the locked key again.
SameKeyTick == LockedTick /\ AboveThreshold /\ Arg.key = pre.current_key

\* C30: while locked on K, a tick that re-detects K at or above the effective
\* threshold leaves current_key unchanged, sets same_key_count and
\* high_confidence_count to 0 and sets current_confidence to 0.8 times its old value
\* plus 0.2 times the new reading, a value between the two and within [0, 1].
C30_SameKeySmoothsConfidence ==
    SameKeyTick =>
        /\ det.current_key = pre.current_key
        /\ det.same_key_count = 0
        /\ det.high_confidence_count = 0
        /\ det.current_confidence = (8 * pre.current_confidence + 2 * Arg.conf) \div 10
        /\ det.current_confidence >= Min(pre.current_confidence, Arg.conf)
        /\ det.current_confidence <= Max(pre.current_confidence, Arg.conf)
        /\ det.current_confidence \in 0..1000
        /\ ret = Returned(pre.current_key, det.current_confidence)

\* A key locked at confidence 0.89 is detected again at 0.5: current_confidence
\* becomes 0.812 and both counters, left at 6 by the quick-lock, become 0.
C30_Witness ==
    /\ SameKeyTick
    /\ pre.current_confidence = 890 /\ Arg.conf = 500
    /\ pre.same_key_count = 6 /\ pre.high_confidence_count = 6
    /\ det.current_confidence = 812
    /\ det.same_key_count = 0 /\ det.high_confidence_count = 0

\* The call made on the voting detector, and whether it reached the vote.
VoteArg == vote_op.a
VoteCalled == VoteArg # NoArg
VoteAnalysed ==
    /\ VoteCalled /\ VoteArg.long /\ VoteArg.fail = "none"
    /\ VoteArg.recent_rms >= min_rms_threshold /\ VoteArg.rms >= min_rms_threshold
VoteAccepted == VoteAnalysed /\ VoteArg.conf >= voting.adaptive_threshold
VoteLocked == voting.current_key # None

\* C31 as stated: in the voting detector a key detected on consecutive above-threshold
\* ticks accumulates votes until it reaches min_votes_to_switch, and then becomes
\* current_key: from a reset detector, feeding the same key at high confidence
\* eventually locks that key.
C31_SameKeyEventuallyLocks == <>(VoteLocked /\ voting.current_key = VoteArg.key)

\* What the code does about C31: no entry of key_votes ever exceeds 7, so no key
\* reaches the 12 votes of min_votes_to_switch and current_key stays None.
C31_VotesNeverReachSwitch ==
    /\ \A k \in DOMAIN voting.key_votes : voting.key_votes[k] <= 7
    /\ ~VoteLocked

\* The vote of a key fed at confidence 1.0 stays at 7 from one tick to the next.
C31_VotesStuck ==
    /\ VoteAccepted /\ VoteArg.conf = 1000
    /\ VoteArg.key \in DOMAIN voting_pre.key_votes
    /\ voting_pre.key_votes[VoteArg.key] = 7
    /\ voting.key_votes[VoteArg.key] = 7
    /\ Len(voting.threshold_history) = threshold_history_maxlen

\* The weight int(0.7 * weight) an entry of key_votes decays to.
Decayed07(weight) == (weight * 7) \div 10
\* key_votes is voting_pre's with every entry decayed, the entries below 1 removed and
\* the tick's vote added.
VotesDecayedAndCast ==
    LET old == voting_pre.key_votes
        new == voting.key_votes
        w   == Max(1, (VoteArg.conf * 3) \div 1000)
    IN  /\ VoteArg.key \in DOMAIN new
        /\ new[VoteArg.key] =
              w + (IF VoteArg.key \in DOMAIN old THEN Decayed07(old[VoteArg.key]) ELSE 0)
        /\ \A k \in DOMAIN old \ {VoteArg.key} :
              IF Decayed07(old[k]) >= 1
                THEN k \in DOMAIN new /\ new[k] = Decayed07(old[k])
              ELSE k \notin DOMAIN new
        /\ DOMAIN new \subseteq DOMAIN old \cup {VoteArg.key}
\* key_votes is voting_pre's with every entry decayed and the entries below 1 removed.
VotesDecayed ==
    LET old == voting_pre.key_votes
        new == voting.key_votes
    IN  /\ DOMAIN new \subseteq DOMAIN old
        /\ \A k \in DOMAIN old :
              IF Decayed07(old[k]) >= 1
                THEN k \in DOMAIN new /\ new[k] = Decayed07(old[k])
              ELSE k \notin DOMAIN new
NoVoteBelowOne == \A k \in DOMAIN voting.key_votes : voting.key_votes[k] >= 1
VoteRejected == VoteAnalysed /\ VoteArg.conf < voting.adaptive_threshold

\* C32 as stated: every key_votes entry is decayed on every detection tick, the ticks
\* whose confidence is below the threshold included, and entries whose weight falls
\* below 1 are removed, so after any tick no entry has weight below 1.
C32_VotesDecayEveryTick ==
    /\ NoVoteBelowOne
    /\ VoteAccepted => VotesDecayedAndCast
    /\ VoteRejected => VotesDecayed

\* C32, amended: every key_votes entry is decayed on every tick whose confidence
\* reaches the adaptive threshold, and entries whose weight falls below 1 are
\* removed; a tick whose confidence is below the threshold leaves key_votes as it was.
\* After any tick no entry has weight below 1.
C32_VotesDecayOnAcceptedTicks ==
    /\ NoVoteBelowOne
    /\ VoteAccepted => VotesDecayedAndCast
    /\ VoteRejected => voting.key_votes = voting_pre.key_votes

\* A tick below the threshold leaves the 4 votes of C Major undecayed.
C32_Witness ==
    /\ VoteRejected
    /\ CMajor \in DOMAIN voting_pre.key_votes
    /\ voting_pre.key_votes[CMajor] = 4
    /\ voting.key_votes = voting_pre.key_votes

\* The index of a key's name in KEY_NAMES, from 0.
PitchClass(key) == (CHOOSE j \in 1..12 : KEY_NAMES[j] = key[1]) - 1
\* a is a major key and b the minor key three semitones below it.
MinorThirdBelow(a, b) ==
    /\ a \in AllKeys /\ b \in AllKeys
    /\ a[2] = "Major" /\ b[2] = "Minor"
    /\ PitchClass(b) = (PitchClass(a) + 12 - 3) % 12

\* C33: the relative-key relation is symmetric and pairs each major key with pitch
\* class i with exactly the minor key with pitch class (i - 3) mod 12 and nothing
\* else: _is_related_key(a, b) equals _is_related_key(b, a), no key is related to
\* itself or to a key of the same mode, and a None argument is never related.
C33_RelativeKeysSymmetric ==
    related.called =>
        /\ related.result = is_related_key(related.key2, related.key1)
        /\ related.result = (\/ MinorThirdBelow(related.key1, related.key2)
                             \/ MinorThirdBelow(related.key2, related.key1))
        /\ related.key1 = related.key2 => ~related.result
        /\ related.key1[2] = related.key2[2] => ~related.result
        /\ (related.key1 = None \/ related.key2 = None) => ~related.result

\* A Minor is found related to C Major.
C33_Witness ==
    /\ related.called
    /\ related.key1 = AMinor /\ related.key2 = CMajor
    /\ related.result

\* C34: once the detector is locked, current_key never becomes None again except
\* through reset(), called explicitly or by the tail-silence check: no low-confidence
\* tick, different-key tick, failed tick or decay of lock_strength unlocks it.
C34_OnlyResetUnlocks ==
    /\ (WasLocked /\ det.current_key = None) => (op.call = "reset" \/ TailSilent)
    /\ (WasLocked /\ Called /\ ~TailSilent) => det.current_key # None

\* A tick that detects another key wears the lock down and leaves the detector locked.
C34_Witness ==
    /\ LockedTick /\ AboveThreshold
    /\ Arg.key # pre.current_key
    /\ det.lock_strength < pre.lock_strength
    /\ det.current_key = pre.current_key

\* A tick below the threshold on a lock worn down to 0.3 or less returns no key and
\* leaves the detector locked.
C34_WornLockKept ==
    /\ LockedTick /\ ~AboveThreshold
    /\ pre.lock_strength <= 300
    /\ ret[1] = "None"
    /\ det.current_key = pre.current_key

\* C35: in every reachable state of the detector, if current_key is None then
\* lock_strength is 0 and current_confidence is 0.
C35_UnlockedHasNoStrength ==
    det.current_key = None => det.lock_strength = 0 /\ det.current_confidence = 0

\* A reset, explicit or by tail silence, of a locked detector whose lock_strength and
\* current_confidence were above 0.
C35_Witness ==
    /\ WasLocked
    /\ pre.lock_strength > 0 /\ pre.current_confidence > 0
    /\ op.call = "reset" \/ TailSilent
    /\ det.current_key = None
    /\ det.lock_strength = 0 /\ det.current_confidence = 0

\* The detector went from unlocked to locked.
LockEstablished == ~WasLocked /\ det.current_key # None
\* recent_detections holds the above-threshold ticks processed since the last reset or
\* the construction, the latest 10 of them: only such a tick appends to it, only a
\* reset clears it.
DetectionsRecorded ==
    \/ det.recent_detections = pre.recent_detections
    \/ det.recent_detections = <<>> /\ (op.call = "reset" \/ TailSilent)
    \/ /\ NonSilent /\ AboveThreshold
       /\ det.recent_detections =
             DequeAppend(pre.recent_detections, <<Arg.key, Arg.conf>>,
                         recent_detections_maxlen)

\* C36: after a reset or the construction, no lock of any kind (quick-lock or normal
\* lock) is established before 6 above-threshold ticks detecting the locked key have
\* been processed, whatever the loudness and confidence history is.  (A lock whose
\* message cannot be printed is established all the same, on a tick that raises.)
C36_NoLockBeforeSixTicks ==
    /\ DetectionsRecorded
    /\ LockEstablished =>
          /\ NonSilent /\ AboveThreshold
          /\ det.current_key = Arg.key
          /\ Agreeing(det.recent_detections, det.current_key) >= 6
          /\ \/ can_quick_lock(Counted, Arg.key)
             \/ Counted.same_key_count >= Counted.adaptive_lock_frames
                /\ Counted.same_key_count >= 6

\* A quick-lock on the sixth above-threshold tick, later than the sixth call: a reset
\* or a tick that was not recorded came before.
C36_Witness ==
    /\ LockEstablished /\ QuickLockEvent
    /\ Agreeing(det.recent_detections, det.current_key) = 6
    /\ Len(det.recent_detections) = 6
    /\ ticks > 6

\* A normal lock.
C36_NormalLockReached == LockEstablished /\ NormalLockEvent

\* C37 as stated: after AudioEngine.stop() followed by start(), every buffer returned
\* by get_buffer contains only samples captured since the latest start, so no sample
\* of the previous capture session is handed to detect_key in the new session.
C37_OnlyCurrentSessionSamples == window.called => window.stale = 0

\* What the code does about C37: in the second session detect_key accepts, as long
\* enough, a window made of samples of the first session only.
C37_StaleWindowAnalysed ==
    /\ starts = 2
    /\ window.called /\ ~window.short
    /\ window.stale = buffer_size_samples

\* C38 as stated: for every device sample rate the engine adopts on start, the capture
\* buffer (capacity int(44100 * 1.5) samples) can hold the detector's minimum analysis
\* window of 1 second at that rate, so under sustained capture detect_key eventually
\* receives a window it does not reject as too short.
C38_EventuallyLongEnough == <>(window.called /\ ~window.short)

\* The first half of C38 alone: the buffer can hold one second at the adopted rate.
C38_BufferHoldsOneSecond ==
    capturing => buffer_size_samples >= min_window(detector_sample_rate)

\* What the code does about C38 at a rate above the capacity: every window is too
\* short.
C38_AlwaysTooShortAbove66150 ==
    (capturing /\ detector_sample_rate > buffer_size_samples /\ window.called)
        => window.short

\* At the rates the buffer can hold one second of, detect_key does receive a window
\* that is long enough.
C38_LongEnoughUpTo66150 ==
    \/ <>(capturing /\ detector_sample_rate > buffer_size_samples)
    \/ <>(window.called /\ ~window.short)

\* The buffer is full at 96000 Hz and detect_key has rejected it as too short.
C38_FullBufferTooShort ==
    /\ capturing /\ actual_sample_rate = 96000
    /\ buffered = buffer_size_samples
    /\ window.called /\ window.short

====
